---- MODULE Spec2Model ----
(***************************************************************************)
(* Real-time job-progress subscription system of Livo.                     *)
(*                                                                         *)
(* Server side: WebSocketService (server/services/websocketService.ts),    *)
(* the storage rows it reads (server/storage.ts, shared/schema.ts) and the *)
(* conversion pipeline that persists and broadcasts progress               *)
(* (server/jobs/videoProcessor.ts).                                        *)
(*                                                                         *)
(* Every `await` of the source is a scheduling point: the code before it   *)
(* and the code after it are separate actions, and the storage operation   *)
(* itself (the database reading or writing the row) is a step of its own,  *)
(* taken between the two.                                                  *)
(*                                                                         *)
(* Transport assumptions (package `ws`): send() on a socket that is not    *)
(* OPEN drops the message without throwing; send() on an OPEN socket in a  *)
(* request handler succeeds; in broadcastProgress, whose code catches a    *)
(* throwing send, the send to an OPEN socket may throw.                    *)
(*                                                                         *)
(* Client side: the useSocket hook (client/src/hooks/useSocket.ts) and its *)
(* caller, the Processing page (client/src/pages/Processing.tsx).  The     *)
(* callbacks of the hook close over the React state of the render that     *)
(* made them; `rendered` is that state and Render the step that refreshes  *)
(* it.  Browser WebSocket: send() on a socket that is CLOSING or CLOSED    *)
(* discards the data without throwing.                                     *)
(***************************************************************************)
EXTENDS Integers, Sequences, FiniteSets, TLC

\* ------------------------------------------------------------------ bounds
\* Inbound messages the server handles over a whole run.
MaxMsgs == 2
\* Progress updates the pipeline gets to persist over a whole run.
MaxUpdates == 1
\* The same two budgets for the runs that follow a whole pipeline run: one
\* inbound message, and every update a run of processVideo can persist.
RunMsgs == 1
RunUpdates == 6
\* Requests a caller's calls may put on one WebSocket of the client (the
\* requests of the settling timer come on top).
MaxOut == 2

\* ------------------------------------------------------------- the universe
NULL == "NULL"

Conns == {"c1", "c2"}
Users == {"alice", "bob"}

\* Rows of the jobs table, and the job ids a client may name (3 has no row).
JobIds == {1, 2}
RequestJobIds == {1, 2, 3}

\* jobs.userId: set by createJob, never updated afterwards.
JobOwner == [j \in JobIds |-> IF j = 1 THEN "alice" ELSE "bob"]

\* Jobs whose pipeline run (processVideo) is still ahead at Init; the other
\* rows are runs that completed earlier.
PipelineJobs == {1}

\* Session records of the external session store, by session id.
SessionIds == {"sidAlice", "sidBob", "sidExpired", "sidAnon", "sidUnknown"}
SessionStoreRecords ==
  [s \in SessionIds \ {"sidUnknown"} |->
     CASE s = "sidAlice"   -> [sub |-> "alice", expired |-> FALSE]
       [] s = "sidBob"     -> [sub |-> "bob",   expired |-> FALSE]
       [] s = "sidExpired" -> [sub |-> "alice", expired |-> TRUE]
       [] s = "sidAnon"    -> [sub |-> NULL,    expired |-> FALSE]]

\* The mark of a handshake whose session-store lookup will get no callback.
Lost == "Lost"

\* What a handshake's cookie header decodes to: no connect.sid cookie, a
\* cookie decodeSessionId rejects, or a session id.
Handshakes == {"NoCookie", "Malformed"} \cup SessionIds

VARIABLES
  readyState,      \* ws.readyState per connection: NEW (not accepted yet), OPEN, CLOSING, CLOSED
  authPending,     \* the handshake whose authenticateConnection is suspended, NULL, or Lost
  isAuthenticated, \* ws.isAuthenticated
  userId,          \* ws.userId (NULL = undefined)
  sessionId,       \* ws.sessionId (NULL = undefined)
  handlers,        \* setupConnectionHandlers has run for the connection
  closeCode,       \* the status code the server passed to ws.close (0 = it did not close)
  storeError,      \* history: the session store answered the connection's lookup with an error
  subscriptions,   \* this.subscriptions: job id -> set of connections (DOMAIN = the keys)
  jobs,            \* the jobs table
  calls,           \* handleSubscription invocations, in order of arrival, with their position
  sent,            \* per connection, what the server passed to ws.send, in order
  pipeline,        \* per job, the position of its processVideo run
  msgsLeft,        \* inbound messages the run may still handle
  updatesLeft,     \* progress updates the run may still persist
  received,        \* history: per connection, the inbound messages handled, in order
  dropped,         \* history: cleanupSubscriptions has run for the connection
  member,          \* history: <<c, j>> whose latest successful subscribe(j) was not followed by unsubscribe(j) or a close/error event
  pruned,          \* history: <<c, j>> removed by a broadcast sweep since c's latest successful subscribe(j)
  bcasts,          \* history: the broadcasts issued, with the subscribers swept
  \* --- the client hook (client/src/hooks/useSocket.ts)
  ws,                       \* readyState of the WebSocket connect() created last
  socket,                   \* React state `socket`: NULL, or "current" (the WebSocket created last)
  connectionState,          \* React state `connectionState`
  connectionReady,          \* connectionReadyRef.current
  pendingSubscriptions,     \* pendingSubscriptionsRef.current
  activeSubscriptions,      \* activeSubscriptionsRef.current
  reconnectAttempts,        \* reconnectAttemptsRef.current
  reconnectTimeout,         \* the timer of reconnectTimeoutRef is pending
  subscriptionReadyTimeout, \* the timer of subscriptionReadyTimeoutRef is pending
  rendered,                 \* the `socket` and `connectionState` the callbacks of the last render closed over
  wsOut,                    \* what the client passed to ws.send of the current WebSocket, in order
  taken,                    \* how many of them the peer took off the wire without a handler call of the service
  toClient,                 \* the peer's messages on their way to ws.onmessage, in order
  fwd,                      \* how many of the service's messages for the peer connection were put on that way
  intent,                   \* history: job ids whose latest call was subscribeToJob, not unsubscribeFromJob
  confirmed,                \* history: job ids a 'subscribed' message arrived for on the current WebSocket
  settled,                  \* history: the settling timer of the current WebSocket has fired
  scheduled,                \* history: reconnects scheduled so far (counted up to the ceiling plus one)
  lastClose,                \* history: the code of the latest close event (0 = none yet)
  delay,                    \* the delay in ms the pending reconnect timer was set with (0 = no timer pending)
  mounted,                  \* the cleanup of the mount effect has not run
  firstSocket               \* the current WebSocket is the one the mount effect's `const ws = connect()` holds

serverVars == <<readyState, authPending, isAuthenticated, userId, sessionId, handlers, closeCode,
          storeError, subscriptions, jobs, calls, sent, pipeline, msgsLeft, updatesLeft,
          received, dropped, member, pruned, bcasts>>

clientVars == <<ws, socket, connectionState, connectionReady, pendingSubscriptions,
                activeSubscriptions, reconnectAttempts, reconnectTimeout,
                subscriptionReadyTimeout, rendered, wsOut, taken, toClient, fwd,
                intent, confirmed, settled, scheduled, lastClose, delay, mounted,
                firstSocket>>

vars == <<serverVars, clientVars>>

connVars == <<readyState, authPending, isAuthenticated, userId, sessionId, handlers, closeCode,
              storeError>>
histVars == <<received, dropped, member, pruned, bcasts>>

\* ---------------------------------------------------------------- storage
\* A row of the jobs table (shared/schema.ts); currentStep and errorMessage
\* are nullable text columns.
JobRow(owner, status, progress, currentStep, errorMessage) ==
  [userId |-> owner, status |-> status, progress |-> progress,
   currentStep |-> currentStep, errorMessage |-> errorMessage]

\* What getJob resolves to when no row matches (undefined).
Undefined == JobRow(NULL, NULL, 0, NULL, NULL)

\* The row createJob inserts (routes.ts: status PENDING, progress 0).
CreatedJob(j) == JobRow(JobOwner[j], "PENDING", 0, NULL, NULL)

\* The updates of a run of processVideo, in order: progress and step label.
Steps ==
  << [progress |-> 10,  currentStep |-> "Analyzing YouTube video..."],
     [progress |-> 30,  currentStep |-> "Extracting video captions..."],
     [progress |-> 60,  currentStep |-> "Structuring content with AI..."],
     [progress |-> 80,  currentStep |-> "Generating document..."],
     [progress |-> 90,  currentStep |-> "Saving document..."],
     [progress |-> 100, currentStep |-> "Document created successfully!"] >>

\* error.message values a failing step may carry: a text, or the empty text.
ErrorMessages == {"Hour limit exceeded for your current plan", ""}

\* JavaScript truthiness of an optional string.
Truthy(s) == s # NULL /\ s # ""

\* storage.getJob(id)
GetJob(j) == IF j \in DOMAIN jobs THEN jobs[j] ELSE Undefined

\* ---------------------------------------------------------------- messages
SubscribedMsg(j) ==
  [type |-> "subscribed", jobId |-> j, message |-> "Successfully subscribed to job updates"]
UnsubscribedMsg(j) ==
  [type |-> "unsubscribed", jobId |-> j, message |-> "Successfully unsubscribed from job updates"]
ErrorMsg(text) == [type |-> "error", message |-> text]
PongMsg == [type |-> "pong"]
ProgressMsg(j, status, progress, currentStep, errorMessage) ==
  [type |-> "progress", jobId |-> j, status |-> status, progress |-> progress,
   currentStep |-> currentStep, errorMessage |-> errorMessage]

\* handleSubscription's currentStatus: the row read by getJob, with defaults.
CurrentStatus(j, job) ==
  ProgressMsg(j,
              IF Truthy(job.status) THEN job.status ELSE "PENDING",
              IF job.progress # 0 THEN job.progress ELSE 0,
              IF Truthy(job.currentStep) THEN job.currentStep ELSE "Starting...",
              IF Truthy(job.errorMessage) THEN job.errorMessage ELSE NULL)

\* ws.send(JSON.stringify(m)) by invocation k (0 = a broadcast): delivered only
\* while the transport is OPEN.
Send(log, c, m, k) ==
  [log EXCEPT ![c] = Append(@, [msg |-> m, call |-> k, delivered |-> readyState[c] = "OPEN"])]

\* The same for the messages ms, in order.
SendAll(log, c, ms, k) ==
  [log EXCEPT ![c] = @ \o [i \in 1..Len(ms) |->
                             [msg |-> ms[i], call |-> k, delivered |-> readyState[c] = "OPEN"]]]

\* ---------------------------------------------------------------- registry
\* Mutant of Subscribers: a job without an entry counts every connection as
\* its subscriber.
SubscribersOrEveryone(j) == IF j \in DOMAIN subscriptions THEN subscriptions[j] ELSE Conns

\* this.subscriptions[jobIdStr], as a set (no entry: no subscriber).
Subscribers(j) == IF j \in DOMAIN subscriptions THEN subscriptions[j] ELSE {}

\* The registry with job j's entry set to S, or deleted.
WithEntry(subs, j, S) == [k \in DOMAIN subs \cup {j} |-> IF k = j THEN S ELSE subs[k]]
WithoutEntry(subs, j) == [k \in DOMAIN subs \ {j} |-> subs[k]]

\* lines 243-255: create the entry if missing, add ws unless already there.
AddSubscriber(subs, j, c) ==
  WithEntry(subs, j, (IF j \in DOMAIN subs THEN subs[j] ELSE {}) \cup {c})

\* Mutant of RemoveSubscriber: unsubscribe leaves the registry as it is.
RemoveSubscriberNoop(subs, j, c) == subs

\* Mutant of RemoveSubscriber: the emptied entry is kept.
RemoveSubscriberKeepEmpty(subs, j, c) ==
  IF j \in DOMAIN subs THEN WithEntry(subs, j, subs[j] \ {c}) ELSE subs

\* lines 298-307: delete ws from the entry if the entry exists; drop an empty entry.
RemoveSubscriber(subs, j, c) ==
  IF j \in DOMAIN subs
    THEN IF subs[j] \ {c} = {} THEN WithoutEntry(subs, j)
                               ELSE WithEntry(subs, j, subs[j] \ {c})
    ELSE subs

\* Mutant of CleanupSubscriptions: emptied entries are kept.
CleanupSubscriptionsKeepsEmpty(subs, c) == [k \in DOMAIN subs |-> subs[k] \ {c}]

\* cleanupSubscriptions: the same for every key of the registry.
CleanupSubscriptions(subs, c) ==
  [k \in {j \in DOMAIN subs : subs[j] \ {c} # {}} |-> subs[k] \ {c}]

\* Mutant of OwnsJob: the ownership check lets everybody through.
OwnsJobAlways(job, c) == TRUE

\* Mutant of OwnsJob: the comparison is inverted.
OwnsJobInverted(job, c) == job.userId # userId[c]

\* line 231: the ownership check.
OwnsJob(job, c) == job.userId = userId[c]

\* ---------------------------------------------------------------- Init
\* The row and the run of a job at start: a job whose run is ahead is as
\* createJob left it; the others are runs that failed earlier.
InitialJob(j) ==
  IF j \in PipelineJobs
    THEN CreatedJob(j)
    ELSE JobRow(JobOwner[j], "FAILED", 0, "Processing failed",
                "Hour limit exceeded for your current plan")
InitialRun(j) ==
  IF j \in PipelineJobs
    THEN [pc |-> "queued", idx |-> 0, failed |-> FALSE, error |-> NULL]
    ELSE [pc |-> "done", idx |-> 1, failed |-> TRUE,
          error |-> "Hour limit exceeded for your current plan"]

\* The client hook once its mount effect has run connect(): the first
\* WebSocket is connecting, nothing was rendered since the initial render.
ClientInit ==
  /\ ws = "CONNECTING"
  /\ socket = NULL
  /\ connectionState = "connecting"
  /\ connectionReady = FALSE
  /\ pendingSubscriptions = {}
  /\ activeSubscriptions = {}
  /\ reconnectAttempts = 0
  /\ reconnectTimeout = FALSE
  /\ subscriptionReadyTimeout = FALSE
  /\ rendered = [socket |-> NULL, connectionState |-> "disconnected"]
  /\ wsOut = << >>
  /\ taken = 0
  /\ toClient = << >>
  /\ fwd = 0
  /\ intent = {}
  /\ confirmed = {}
  /\ settled = FALSE
  /\ scheduled = 0
  /\ lastClose = 0
  /\ delay = 0
  /\ mounted = TRUE
  /\ firstSocket = TRUE

\* Everything but the connections, for a run that may handle msgs inbound
\* messages and persist updates progress updates.
InitRest(msgs, updates) ==
  /\ subscriptions = << >>
  /\ jobs = [j \in JobIds |-> InitialJob(j)]
  /\ calls = << >>
  /\ sent = [c \in Conns |-> << >>]
  /\ pipeline = [j \in JobIds |-> InitialRun(j)]
  /\ msgsLeft = msgs
  /\ updatesLeft = updates
  /\ received = [c \in Conns |-> << >>]
  /\ dropped = [c \in Conns |-> FALSE]
  /\ member = {}
  /\ pruned = {}
  /\ bcasts = << >>
  /\ ClientInit

\* The service after initialize(): no connection accepted yet.
InitWith(msgs, updates) ==
  /\ readyState = [c \in Conns |-> "NEW"]
  /\ authPending = [c \in Conns |-> NULL]
  /\ isAuthenticated = [c \in Conns |-> FALSE]
  /\ userId = [c \in Conns |-> NULL]
  /\ sessionId = [c \in Conns |-> NULL]
  /\ handlers = [c \in Conns |-> FALSE]
  /\ closeCode = [c \in Conns |-> 0]
  /\ storeError = [c \in Conns |-> FALSE]
  /\ InitRest(msgs, updates)

\* The same, with the budgets of the registry runs.
Init == InitWith(MaxMsgs, MaxUpdates)

\* Who the connections are once their handshakes succeeded: alice and bob, or
\* alice twice.
Logins == {[c \in Conns |-> IF c = "c1" THEN "sidAlice" ELSE "sidBob"],
           [c \in Conns |-> "sidAlice"]}

\* The service once every connection was accepted and authenticated (the
\* state AcceptConnection and AuthComplete lead to for valid sessions) and
\* before any message arrived.
EstablishedWith(msgs, updates) ==
  /\ readyState = [c \in Conns |-> "OPEN"]
  /\ authPending = [c \in Conns |-> NULL]
  /\ isAuthenticated = [c \in Conns |-> TRUE]
  /\ \E login \in Logins :
       /\ userId = [c \in Conns |-> SessionStoreRecords[login[c]].sub]
       /\ sessionId = login
  /\ handlers = [c \in Conns |-> TRUE]
  /\ closeCode = [c \in Conns |-> 0]
  /\ storeError = [c \in Conns |-> FALSE]
  /\ InitRest(msgs, updates)

\* The same, with the budgets of the registry runs.
Established == EstablishedWith(MaxMsgs, MaxUpdates)

\* ------------------------------------------------------- session validation
\* The status code of ws.close(1008, 'Authentication required').
PolicyViolation == 1008

\* Mutant of ValidateSession: a record's principal is accepted whatever the
\* store's error and the principal's expiry.
ValidateSessionLax(h, storeErr) ==
  IF h \in DOMAIN SessionStoreRecords /\ Truthy(SessionStoreRecords[h].sub)
    THEN [ok |-> TRUE, sub |-> SessionStoreRecords[h].sub, sid |-> h]
    ELSE [ok |-> FALSE, sub |-> NULL, sid |-> NULL]

\* authenticateConnection: the verdict for a handshake; storeErr = the session
\* store called back with an error (getSessionData resolves null).
ValidateSession(h, storeErr) ==
  IF h \in {"NoCookie", "Malformed"} THEN [ok |-> FALSE, sub |-> NULL, sid |-> NULL]
  ELSE IF storeErr \/ h \notin DOMAIN SessionStoreRecords
    THEN [ok |-> FALSE, sub |-> NULL, sid |-> NULL]
  ELSE IF ~Truthy(SessionStoreRecords[h].sub) \/ SessionStoreRecords[h].expired
    THEN [ok |-> FALSE, sub |-> NULL, sid |-> NULL]
  ELSE [ok |-> TRUE, sub |-> SessionStoreRecords[h].sub, sid |-> h]

\* wss.on('connection'): the socket is accepted and authenticateConnection is
\* started; it suspends at the session-store lookup.
AcceptConnection(c, h) ==
  /\ readyState[c] = "NEW"
  /\ readyState' = [readyState EXCEPT ![c] = "OPEN"]
  /\ authPending' = [authPending EXCEPT ![c] = h]
  /\ UNCHANGED <<clientVars, isAuthenticated, userId, sessionId, handlers, closeCode, storeError,
                 subscriptions, jobs,
                 calls, sent, pipeline, msgsLeft, updatesLeft, histVars>>

\* Mutant of AuthComplete: setupConnectionHandlers runs whatever the verdict,
\* and a connection that failed validation is not closed.
AuthCompleteInstallsAnyway(c, storeErr) ==
  /\ authPending[c] \in Handshakes
  /\ LET v == ValidateSession(authPending[c], storeErr) IN
       /\ isAuthenticated' = [isAuthenticated EXCEPT ![c] = v.ok]
       /\ userId' = [userId EXCEPT ![c] = v.sub]
       /\ sessionId' = [sessionId EXCEPT ![c] = v.sid]
  /\ handlers' = [handlers EXCEPT ![c] = TRUE]
  /\ storeError' = [storeError EXCEPT ![c] = storeErr /\ authPending[c] \in SessionIds]
  /\ authPending' = [authPending EXCEPT ![c] = NULL]
  /\ UNCHANGED <<clientVars, readyState, closeCode, subscriptions, jobs, calls, sent, pipeline,
                 msgsLeft, updatesLeft, histVars>>

\* The connection handler resumes: on success the socket is marked and
\* setupConnectionHandlers runs; otherwise ws.close(1008).
AuthComplete(c, storeErr) ==
  /\ authPending[c] \in Handshakes
  /\ LET v == ValidateSession(authPending[c], storeErr) IN
       /\ isAuthenticated' = [isAuthenticated EXCEPT ![c] = v.ok]
       /\ userId' = [userId EXCEPT ![c] = v.sub]
       /\ sessionId' = [sessionId EXCEPT ![c] = v.sid]
       /\ handlers' = [handlers EXCEPT ![c] = v.ok]
       /\ readyState' = [readyState EXCEPT ![c] =
                           IF ~v.ok /\ @ = "OPEN" THEN "CLOSING" ELSE @]
       /\ closeCode' = [closeCode EXCEPT ![c] =
                          IF ~v.ok /\ readyState[c] = "OPEN" THEN PolicyViolation ELSE @]
  /\ storeError' = [storeError EXCEPT ![c] = storeErr /\ authPending[c] \in SessionIds]
  /\ authPending' = [authPending EXCEPT ![c] = NULL]
  /\ UNCHANGED <<clientVars, subscriptions, jobs, calls, sent, pipeline, msgsLeft, updatesLeft, histVars>>

\* getSessionData (lines 164-175): the promise settles only in the callback
\* of sessionStore.get, and no timer bounds the wait. A store that never calls
\* back leaves authenticateConnection suspended at line 91 for good.
StoreNeverCallsBack(c) ==
  /\ authPending[c] \in SessionIds
  /\ authPending' = [authPending EXCEPT ![c] = Lost]
  /\ UNCHANGED <<clientVars, readyState, isAuthenticated, userId, sessionId, handlers, closeCode,
                 storeError, subscriptions, jobs, calls, sent, pipeline, msgsLeft, updatesLeft,
                 histVars>>

\* ------------------------------------------------------- transport events
\* The peer closes or the link drops: the socket leaves OPEN; its 'close'
\* event is emitted later.
PeerClose(c) ==
  /\ readyState[c] = "OPEN"
  /\ readyState' = [readyState EXCEPT ![c] = "CLOSING"]
  /\ UNCHANGED <<clientVars, authPending, isAuthenticated, userId, sessionId, handlers, closeCode, storeError,
                 subscriptions, jobs, calls, sent, pipeline, msgsLeft, updatesLeft, histVars>>

\* The history after cleanupSubscriptions ran for c.
Disconnected(c) ==
  /\ dropped' = [dropped EXCEPT ![c] = TRUE]
  /\ member' = {p \in member : p[1] # c}
  /\ pruned' = {p \in pruned : p[1] # c}
  /\ UNCHANGED <<received, bcasts>>

\* ws.on('close'): cleanupSubscriptions, if the handlers are installed.
CloseEvent(c) ==
  /\ readyState[c] = "CLOSING"
  /\ readyState' = [readyState EXCEPT ![c] = "CLOSED"]
  /\ IF handlers[c]
       THEN /\ subscriptions' = CleanupSubscriptions(subscriptions, c)
            /\ Disconnected(c)
       ELSE UNCHANGED <<subscriptions, histVars>>
  /\ UNCHANGED <<clientVars, authPending, isAuthenticated, userId, sessionId, handlers, closeCode, storeError,
                 jobs, calls, sent, pipeline, msgsLeft, updatesLeft>>

\* ws.on('error'): cleanupSubscriptions; the socket is closing from then on.
ErrorEvent(c) ==
  /\ readyState[c] = "OPEN"
  /\ handlers[c]
  /\ readyState' = [readyState EXCEPT ![c] = "CLOSING"]
  /\ subscriptions' = CleanupSubscriptions(subscriptions, c)
  /\ Disconnected(c)
  /\ UNCHANGED <<clientVars, authPending, isAuthenticated, userId, sessionId, handlers, closeCode, storeError,
                 jobs, calls, sent, pipeline, msgsLeft, updatesLeft>>

\* ------------------------------------------------------- inbound messages
\* A message reaches ws.on('message') only on an open socket with handlers.
CanReceive(c) == readyState[c] = "OPEN" /\ handlers[c] /\ msgsLeft > 0

\* The history of a handled inbound message (jobId 0: the message has none).
Handled(c, type, j) ==
  /\ msgsLeft' = msgsLeft - 1
  /\ received' = [received EXCEPT ![c] = Append(@, [type |-> type, jobId |-> j])]

\* lines 212, 288: the precondition of subscribe and unsubscribe.
AuthenticationRequired(c) == ~isAuthenticated[c] \/ ~Truthy(userId[c])

\* The invocations of handleSubscription a run can hold, in order of arrival.
CallIds == 1..MaxMsgs

\* handleSubscription(ws, jobId) entered, about to await storage.getJob.
NewCall(c, j) ==
  [conn |-> c, jobId |-> j, pc |-> "getJob", job |-> Undefined,
   wasMember |-> FALSE, sizeBefore |-> 0, sizeAfter |-> 0, outcome |-> NULL]

\* {type: 'subscribe', jobId: j}: handleSubscription up to `await storage.getJob`.
ReceiveSubscribe(c, j) ==
  /\ CanReceive(c)
  /\ Handled(c, "subscribe", j)
  /\ IF AuthenticationRequired(c)
       THEN /\ sent' = Send(sent, c, ErrorMsg("Authentication required"), 0)
            /\ UNCHANGED calls
       ELSE /\ calls' = Append(calls, NewCall(c, j))
            /\ UNCHANGED sent
  /\ UNCHANGED <<clientVars, connVars, subscriptions, jobs, pipeline, updatesLeft,
                 dropped, member, pruned, bcasts>>

\* The database answers the SELECT of getJob: the row as stored at that moment.
StorageGetJob(k) ==
  /\ k \in DOMAIN calls
  /\ calls[k].pc = "getJob"
  /\ calls' = [calls EXCEPT ![k].pc = "gotJob", ![k].job = GetJob(calls[k].jobId)]
  /\ UNCHANGED <<clientVars, connVars, subscriptions, jobs, sent, pipeline, msgsLeft, updatesLeft, histVars>>

\* getJob or getDocument rejects: the catch block replies with an error.
StorageReadFails(k) ==
  /\ k \in DOMAIN calls
  /\ calls[k].pc \in {"getJob", "getDocument"}
  /\ calls' = [calls EXCEPT ![k].pc = "done", ![k].outcome = "error"]
  /\ sent' = Send(sent, calls[k].conn, ErrorMsg("Failed to subscribe to job updates"), k)
  /\ UNCHANGED <<clientVars, connVars, subscriptions, jobs, pipeline, msgsLeft, updatesLeft, histVars>>

\* Mutant of SubscribeReplies: no confirmation when ws was already subscribed.
SubscribeRepliesOnce(j, already) == IF already THEN << >> ELSE << SubscribedMsg(j) >>

\* lines 247-262: the confirmation is sent whether or not ws was already in
\* the set.
SubscribeReplies(j, already) == << SubscribedMsg(j) >>

\* handleSubscription resumes after getJob: lines 222-262, up to
\* `await storage.getDocument`.
ResumeAfterGetJob(k) ==
  /\ k \in DOMAIN calls
  /\ calls[k].pc = "gotJob"
  /\ LET c == calls[k].conn
         j == calls[k].jobId
         job == calls[k].job IN
       IF job = Undefined
         THEN /\ calls' = [calls EXCEPT ![k].pc = "done", ![k].outcome = "notfound"]
              /\ sent' = Send(sent, c, ErrorMsg("Job not found"), k)
              /\ UNCHANGED <<subscriptions, histVars>>
       ELSE IF ~OwnsJob(job, c)
         THEN /\ calls' = [calls EXCEPT ![k].pc = "done", ![k].outcome = "unauthorized"]
              /\ sent' = Send(sent, c,
                              ErrorMsg("Unauthorized: You can only access your own jobs"), k)
              /\ UNCHANGED <<subscriptions, histVars>>
       ELSE /\ subscriptions' = AddSubscriber(subscriptions, j, c)
            /\ calls' = [calls EXCEPT ![k].pc = "getDocument",
                                      ![k].wasMember = c \in Subscribers(j),
                                      ![k].sizeBefore = Cardinality(Subscribers(j)),
                                      ![k].sizeAfter = Cardinality(subscriptions'[j])]
            /\ sent' = SendAll(sent, c, SubscribeReplies(j, c \in Subscribers(j)), k)
            /\ member' = member \cup {<<c, j>>}
            /\ pruned' = pruned \ {<<c, j>>}
            /\ UNCHANGED <<received, dropped, bcasts>>
  /\ UNCHANGED <<clientVars, connVars, jobs, pipeline, msgsLeft, updatesLeft>>

\* handleSubscription resumes after getDocument: lines 266-275, the snapshot.
ResumeAfterGetDocument(k) ==
  /\ k \in DOMAIN calls
  /\ calls[k].pc = "getDocument"
  /\ calls' = [calls EXCEPT ![k].pc = "done", ![k].outcome = "ok"]
  /\ sent' = Send(sent, calls[k].conn, CurrentStatus(calls[k].jobId, calls[k].job), k)
  /\ UNCHANGED <<clientVars, connVars, subscriptions, jobs, pipeline, msgsLeft, updatesLeft, histVars>>

\* {type: 'unsubscribe', jobId: j}: handleUnsubscription, which never suspends.
ReceiveUnsubscribe(c, j) ==
  /\ CanReceive(c)
  /\ Handled(c, "unsubscribe", j)
  /\ IF AuthenticationRequired(c)
       THEN /\ sent' = Send(sent, c, ErrorMsg("Authentication required"), 0)
            /\ UNCHANGED <<subscriptions, member, pruned>>
       ELSE /\ subscriptions' = RemoveSubscriber(subscriptions, j, c)
            /\ sent' = Send(sent, c, UnsubscribedMsg(j), 0)
            /\ member' = member \ {<<c, j>>}
            /\ pruned' = pruned \ {<<c, j>>}
  /\ UNCHANGED <<clientVars, connVars, jobs, calls, pipeline, updatesLeft, dropped, bcasts>>

\* {type: 'ping'} is answered with a pong.
ReceivePing(c) ==
  /\ CanReceive(c)
  /\ Handled(c, "ping", 0)
  /\ sent' = Send(sent, c, PongMsg, 0)
  /\ UNCHANGED <<clientVars, connVars, subscriptions, jobs, calls, pipeline, updatesLeft,
                 dropped, member, pruned, bcasts>>

\* Mutant of ReceiveMalformed: the connection is closed after the error reply.
ReceiveMalformedCloses(c) ==
  /\ CanReceive(c)
  /\ Handled(c, "malformed", 0)
  /\ sent' = Send(sent, c, ErrorMsg("Invalid message format"), 0)
  /\ readyState' = [readyState EXCEPT ![c] = "CLOSING"]
  /\ UNCHANGED <<clientVars, authPending, isAuthenticated, userId, sessionId, handlers, closeCode, storeError,
                 subscriptions, jobs, calls, pipeline, updatesLeft,
                 dropped, member, pruned, bcasts>>

\* Mutant of ReceiveMalformed: the error reply is sent twice.
ReceiveMalformedTwice(c) ==
  /\ CanReceive(c)
  /\ Handled(c, "malformed", 0)
  /\ sent' = SendAll(sent, c, << ErrorMsg("Invalid message format"),
                                ErrorMsg("Invalid message format") >>, 0)
  /\ UNCHANGED <<clientVars, connVars, subscriptions, jobs, calls, pipeline, updatesLeft,
                 dropped, member, pruned, bcasts>>

\* A payload JSON.parse rejects.
ReceiveMalformed(c) ==
  /\ CanReceive(c)
  /\ Handled(c, "malformed", 0)
  /\ sent' = Send(sent, c, ErrorMsg("Invalid message format"), 0)
  /\ UNCHANGED <<clientVars, connVars, subscriptions, jobs, calls, pipeline, updatesLeft,
                 dropped, member, pruned, bcasts>>

\* ---------------------------------------------------------------- broadcast
\* The invocations of handleSubscription for job j that have not returned.
InFlight(j) ==
  {k \in DOMAIN calls : calls[k].jobId = j /\ calls[k].pc # "done"}

\* Mutant of DeadConnections: the first dead subscriber ends the loop, and
\* nobody is served.
DeadConnectionsAbort(subscribers, failing) ==
  IF {c \in subscribers : readyState[c] # "OPEN"} \cup failing = {} THEN {} ELSE subscribers

\* lines 348-359: the subscribers the sweep marks dead: transport not OPEN, or
\* the send threw (failing).
DeadConnections(subscribers, failing) ==
  {c \in subscribers : readyState[c] # "OPEN"} \cup failing

\* Mutant of Sweep: the dead connections stay in the set.
SweepKeepsDead(subs, j, dead) == subs

\* lines 361-368: delete the dead ones, drop the entry when nobody is left.
Sweep(subs, j, dead) ==
  LET alive == (IF j \in DOMAIN subs THEN subs[j] ELSE {}) \ dead IN
    IF alive = {} THEN WithoutEntry(subs, j) ELSE WithEntry(subs, j, alive)

\* websocketService.broadcastProgress(j, m); failing = the open subscribers
\* whose ws.send throws.
BroadcastProgress(j, m, failing) ==
  LET subscribers == Subscribers(j)
      dead == DeadConnections(subscribers, failing)
      event == [jobId |-> j, msg |-> m, subscribers |-> subscribers,
                delivered |-> subscribers \ dead, failing |-> failing,
                racing |-> InFlight(j)]
  IN /\ failing \subseteq {c \in subscribers : readyState[c] = "OPEN"}
     /\ bcasts' = Append(bcasts, event)
     /\ IF subscribers = {}
          THEN UNCHANGED <<subscriptions, sent, pruned>>
          ELSE /\ sent' = [c \in Conns |->
                             IF c \in subscribers \ dead
                               THEN Append(sent[c], [msg |-> m, call |-> 0, delivered |-> TRUE])
                               ELSE sent[c]]
               /\ subscriptions' = Sweep(subscriptions, j, dead)
               /\ pruned' = pruned \cup {<<c, j>> : c \in dead}
     /\ UNCHANGED <<received, dropped, member>>

\* ---------------------------------------------------------------- pipeline
\* Mutant of StatusFor: the job counts as completed from the saving step on.
StatusForEager(progress, error) ==
  IF Truthy(error) THEN "FAILED" ELSE IF progress >= 90 THEN "COMPLETED" ELSE "PROCESSING"

\* updateJobProgress line 124.
StatusFor(progress, error) ==
  IF Truthy(error) THEN "FAILED" ELSE IF progress = 100 THEN "COMPLETED" ELSE "PROCESSING"

\* The arguments of the updateJobProgress call the run is at.
UpdateArgs(p) ==
  IF p.failed
    THEN [progress |-> 0, currentStep |-> "Processing failed", error |-> p.error]
    ELSE [progress |-> Steps[p.idx].progress, currentStep |-> Steps[p.idx].currentStep,
          error |-> NULL]

\* The fields updateJobProgress persists and broadcasts.
UpdateFields(p) ==
  LET a == UpdateArgs(p) IN
    [status |-> StatusFor(a.progress, a.error), progress |-> a.progress,
     currentStep |-> a.currentStep,
     errorMessage |-> IF Truthy(a.error) THEN a.error ELSE NULL]

\* Where processVideo continues after an updateJobProgress call returned.
AfterUpdate(p) ==
  IF p.failed \/ p.idx = Len(Steps) THEN [p EXCEPT !.pc = "done"] ELSE [p EXCEPT !.pc = "work"]

\* addVideoProcessingJob's timer fires: processVideo starts with its first update.
StartPipeline(j) ==
  /\ pipeline[j].pc = "queued"
  /\ pipeline' = [pipeline EXCEPT ![j] = [pc |-> "update", idx |-> 1, failed |-> FALSE, error |-> NULL]]
  /\ UNCHANGED <<clientVars, connVars, subscriptions, jobs, calls, sent, msgsLeft, updatesLeft, histVars>>

\* storage.updateJob writes the row.
UpdateJobPersist(j) ==
  /\ pipeline[j].pc = "update"
  /\ updatesLeft > 0
  /\ updatesLeft' = updatesLeft - 1
  /\ LET f == UpdateFields(pipeline[j]) IN
       jobs' = [jobs EXCEPT ![j] = JobRow(@.userId, f.status, f.progress, f.currentStep, f.errorMessage)]
  /\ pipeline' = [pipeline EXCEPT ![j].pc = "persisted"]
  /\ UNCHANGED <<clientVars, connVars, subscriptions, calls, sent, msgsLeft, histVars>>

\* Mutant of UpdateJobFails: the broadcast goes out although the write failed.
UpdateJobFailsBroadcasts(j) ==
  /\ pipeline[j].pc = "update"
  /\ pipeline' = [pipeline EXCEPT ![j].pc = "persisted"]
  /\ UNCHANGED <<clientVars, connVars, subscriptions, jobs, calls, sent, msgsLeft, updatesLeft, histVars>>

\* storage.updateJob rejects: updateJobProgress logs it and returns, no broadcast.
UpdateJobFails(j) ==
  /\ pipeline[j].pc = "update"
  /\ pipeline' = [pipeline EXCEPT ![j] = AfterUpdate(@)]
  /\ UNCHANGED <<clientVars, connVars, subscriptions, jobs, calls, sent, msgsLeft, updatesLeft, histVars>>

\* updateJobProgress resumes after the write and broadcasts.
Broadcast(j, failing) ==
  /\ pipeline[j].pc = "persisted"
  /\ LET f == UpdateFields(pipeline[j]) IN
       BroadcastProgress(j, ProgressMsg(j, f.status, f.progress, f.currentStep, f.errorMessage),
                         failing)
  /\ pipeline' = [pipeline EXCEPT ![j] = AfterUpdate(@)]
  /\ UNCHANGED <<clientVars, connVars, jobs, calls, msgsLeft, updatesLeft>>

\* Mutant of StepWork: the run emits the update it has just emitted again.
StepWorkRepeats(j) ==
  /\ pipeline[j].pc = "work"
  /\ pipeline' = [pipeline EXCEPT ![j].pc = "update"]
  /\ UNCHANGED <<clientVars, connVars, subscriptions, jobs, calls, sent, msgsLeft, updatesLeft, histVars>>

\* The work between two updates succeeds: on to the next update.
StepWork(j) ==
  /\ pipeline[j].pc = "work"
  /\ pipeline' = [pipeline EXCEPT ![j].pc = "update", ![j].idx = @ + 1]
  /\ UNCHANGED <<clientVars, connVars, subscriptions, jobs, calls, sent, msgsLeft, updatesLeft, histVars>>

\* The work between two updates throws: the catch block of processVideo.
StepThrows(j, e) ==
  /\ pipeline[j].pc = "work"
  /\ pipeline' = [pipeline EXCEPT ![j].pc = "catch", ![j].failed = TRUE, ![j].error = e]
  /\ UNCHANGED <<clientVars, connVars, subscriptions, jobs, calls, sent, msgsLeft, updatesLeft, histVars>>

\* catch block: storage.updateDocument(FAILED) returns, then the failure update;
\* or it rejects and processVideo ends there.
CatchUpdateDocument(j, ok) ==
  /\ pipeline[j].pc = "catch"
  /\ pipeline' = [pipeline EXCEPT ![j].pc = IF ok THEN "update" ELSE "done"]
  /\ UNCHANGED <<clientVars, connVars, subscriptions, jobs, calls, sent, msgsLeft, updatesLeft, histVars>>

\* ------------------------------------------------------------------- client
\* useSocket.ts line 108.
MaxReconnectAttempts == 5
\* The close code of a normal closure (line 216).
NormalClosure == 1000
\* The close code of a connection that ended without a close frame.
AbnormalClosure == 1006

\* The codes a close event can carry here.
CloseCodes == {NormalClosure, AbnormalClosure, PolicyViolation}

\* The requests of the client.
SubscribeReq(j) == [type |-> "subscribe", jobId |-> j]
UnsubscribeReq(j) == [type |-> "unsubscribe", jobId |-> j]

\* The orders in which a forEach can visit the job ids of a Set.
Orders(S) ==
  {q \in [1..Cardinality(S) -> S] : \A i, k \in 1..Cardinality(S) : i # k => q[i] # q[k]}

\* `socket && socket.readyState === WebSocket.OPEN` in a callback that closed
\* over r: the WebSocket of an earlier connect() is closed.
SocketOpen(r) == r.socket = "current" /\ ws = "OPEN"

\* The check of sendMessage (line 258) and of unsubscribeFromJob (line 328).
CanSendMessage(r) == SocketOpen(r) /\ connectionReady

\* The check of subscribeToJob (line 271).
CanSubscribeNow(r) ==
  SocketOpen(r) /\ connectionReady /\ r.connectionState = "authenticated"

\* What the components see after the next render.
NextRender == [socket |-> socket, connectionState |-> connectionState]

\* connect(), called by the reconnect timer: a new WebSocket; the one the
\* callbacks closed over is an earlier one from now on.
Connect ==
  /\ reconnectTimeout
  /\ reconnectTimeout' = FALSE
  /\ connectionState' = "connecting"
  /\ ws' = "CONNECTING"
  /\ rendered' = [rendered EXCEPT !.socket = IF @ = "current" THEN "stale" ELSE @]
  /\ wsOut' = << >>
  /\ taken' = 0
  /\ toClient' = << >>
  /\ fwd' = 0
  /\ confirmed' = {}
  /\ settled' = FALSE
  /\ delay' = 0
  /\ firstSocket' = FALSE
  /\ UNCHANGED <<serverVars, socket, connectionReady, pendingSubscriptions,
                 activeSubscriptions, reconnectAttempts, subscriptionReadyTimeout,
                 intent, scheduled, lastClose, mounted>>

\* Mutant of OnOpen: the subscriptions are flushed when the socket opens,
\* without a settling delay.
OnOpenFlushes ==
  /\ ws = "CONNECTING"
  /\ ws' = "OPEN"
  /\ connectionState' = "authenticated"
  /\ socket' = "current"
  /\ reconnectAttempts' = 0
  /\ connectionReady' = TRUE
  /\ pendingSubscriptions' = {}
  /\ \E q \in Orders(pendingSubscriptions \cup activeSubscriptions) :
       wsOut' = wsOut \o [i \in 1..Len(q) |-> SubscribeReq(q[i])]
  /\ UNCHANGED <<serverVars, activeSubscriptions, reconnectTimeout,
                 subscriptionReadyTimeout, rendered, taken, toClient, fwd,
                 intent, confirmed, settled, scheduled, lastClose,
                 delay, mounted, firstSocket>>

\* ws.onopen (lines 125-164, without the timer's callback).
OnOpen ==
  /\ ws = "CONNECTING"
  /\ ws' = "OPEN"
  /\ connectionState' = "connected"
  /\ socket' = "current"
  /\ reconnectAttempts' = 0
  /\ subscriptionReadyTimeout' = TRUE
  /\ UNCHANGED <<serverVars, connectionReady, pendingSubscriptions, activeSubscriptions,
                 reconnectTimeout, rendered, wsOut, taken, toClient, fwd,
                 intent, confirmed, settled, scheduled, lastClose,
                 delay, mounted, firstSocket>>

\* The callback of the settling timer (lines 139-163). The timer is cleared by
\* onclose, so the socket is open or closing and ws.send does not throw: the
\* catch block never runs.
SettleTimer ==
  /\ subscriptionReadyTimeout
  /\ subscriptionReadyTimeout' = FALSE
  /\ connectionReady' = TRUE
  /\ connectionState' = "authenticated"
  /\ settled' = TRUE
  /\ pendingSubscriptions' = {}
  /\ \E q \in Orders(pendingSubscriptions \cup activeSubscriptions) :
       wsOut' = wsOut \o [i \in 1..Len(q) |-> SubscribeReq(q[i])]
  /\ UNCHANGED <<serverVars, ws, socket, activeSubscriptions, reconnectAttempts,
                 reconnectTimeout, rendered, taken, toClient, fwd,
                 intent, confirmed, scheduled, lastClose,
                 delay, mounted, firstSocket>>

\* Line 181: an error message whose text contains 'Authentication'.
IsAuthenticationError(m) == m.type = "error" /\ m.message = "Authentication required"

\* ws.onmessage (lines 166-194) for the message at the head of the way in.
OnMessage ==
  /\ ws \in {"OPEN", "CLOSING"}
  /\ toClient # << >>
  /\ LET m == Head(toClient) IN
       /\ IF m.type = "subscribed" /\ m.jobId # 0
            THEN /\ activeSubscriptions' = activeSubscriptions \cup {m.jobId}
                 /\ pendingSubscriptions' = pendingSubscriptions \ {m.jobId}
                 /\ confirmed' = confirmed \cup {m.jobId}
            ELSE UNCHANGED <<activeSubscriptions, pendingSubscriptions, confirmed>>
       /\ IF IsAuthenticationError(m)
            THEN /\ connectionState' = "disconnected"
                 /\ connectionReady' = FALSE
            ELSE UNCHANGED <<connectionState, connectionReady>>
  /\ toClient' = Tail(toClient)
  /\ UNCHANGED <<serverVars, ws, socket, reconnectAttempts, reconnectTimeout,
                 subscriptionReadyTimeout, rendered, wsOut, taken, fwd,
                 intent, settled, scheduled, lastClose,
                 delay, mounted, firstSocket>>

\* The closing handshake starts or the link drops: the socket leaves OPEN, its
\* close event is dispatched later.
Closing ==
  /\ ws = "OPEN"
  /\ ws' = "CLOSING"
  /\ UNCHANGED <<serverVars, socket, connectionState, connectionReady,
                 pendingSubscriptions, activeSubscriptions, reconnectAttempts,
                 reconnectTimeout, subscriptionReadyTimeout, rendered, wsOut, taken,
                 toClient, fwd, intent, confirmed, settled, scheduled, lastClose,
                 delay, mounted, firstSocket>>

\* Line 218: base and cap of the reconnect delay, in ms.
BackoffBase == 1000
BackoffCap == 30000

\* 2 to the power n (Math.pow(2, n)).
RECURSIVE Pow2(_)
Pow2(n) == IF n = 0 THEN 1 ELSE 2 * Pow2(n - 1)

\* Line 218: the delay computed from the attempt counter, which line 217 has
\* incremented already.
ReconnectDelay(attempts) ==
  IF BackoffBase * Pow2(attempts) < BackoffCap THEN BackoffBase * Pow2(attempts) ELSE BackoffCap

\* Mutant of Reconnects: the attempts made are not looked at.
ReconnectsAlways(code) == code # NormalClosure

\* Lines 216-225: whether onclose schedules a reconnect.
Reconnects(code) == code # NormalClosure /\ reconnectAttempts < MaxReconnectAttempts

\* Mutant of MovedToPending: the active job ids are dropped.
MovedToPendingNone(pending, active) == pending

\* Lines 208-212: the pending set after the active ids were added to it.
MovedToPending(pending, active) == pending \cup active

\* ws.onclose (lines 196-226); a socket that never opened closes abnormally.
OnClose(code) ==
  /\ ws \in {"CONNECTING", "OPEN", "CLOSING"}
  /\ ws = "CONNECTING" => code = AbnormalClosure
  /\ ws' = "CLOSED"
  /\ socket' = NULL
  /\ connectionReady' = FALSE
  /\ connectionState' = "disconnected"
  /\ subscriptionReadyTimeout' = FALSE
  /\ pendingSubscriptions' = MovedToPending(pendingSubscriptions, activeSubscriptions)
  /\ activeSubscriptions' = {}
  /\ IF Reconnects(code)
       THEN /\ reconnectAttempts' = reconnectAttempts + 1
            /\ delay' = ReconnectDelay(reconnectAttempts + 1)
            /\ reconnectTimeout' = TRUE
            /\ scheduled' = IF scheduled > MaxReconnectAttempts THEN scheduled ELSE scheduled + 1
       ELSE UNCHANGED <<reconnectAttempts, delay, reconnectTimeout, scheduled>>
  /\ toClient' = << >>
  /\ lastClose' = code
  /\ UNCHANGED <<serverVars, rendered, wsOut, taken, fwd, intent, confirmed, settled,
                 mounted, firstSocket>>

\* React renders: the callbacks close over the current state.
Render ==
  /\ rendered # NextRender
  /\ rendered' = NextRender
  /\ UNCHANGED <<serverVars, ws, socket, connectionState, connectionReady,
                 pendingSubscriptions, activeSubscriptions, reconnectAttempts,
                 reconnectTimeout, subscriptionReadyTimeout, wsOut, taken, toClient, fwd,
                 intent, confirmed, settled, scheduled, lastClose,
                 delay, mounted, firstSocket>>

\* subscribeToJob(j) (lines 267-292) in a callback that closed over r;
\* sendMessage (lines 257-264) makes its own check.
SubscribeCall(r, j) ==
  /\ activeSubscriptions' = activeSubscriptions \cup {j}
  /\ intent' = intent \cup {j}
  /\ IF CanSubscribeNow(r)
       THEN IF CanSendMessage(r)
              THEN /\ Len(wsOut) < MaxOut
                   /\ wsOut' = Append(wsOut, SubscribeReq(j))
                   /\ pendingSubscriptions' = pendingSubscriptions \ {j}
              ELSE /\ pendingSubscriptions' = pendingSubscriptions \cup {j}
                   /\ UNCHANGED wsOut
       ELSE /\ pendingSubscriptions' = pendingSubscriptions \cup {j}
            /\ UNCHANGED wsOut

\* A caller calls subscribeToJob(j) of the last render.
SubscribeToJob(j) ==
  /\ SubscribeCall(rendered, j)
  /\ UNCHANGED <<serverVars, ws, socket, connectionState, connectionReady,
                 reconnectAttempts, reconnectTimeout, subscriptionReadyTimeout, rendered,
                 taken, toClient, fwd, confirmed, settled, scheduled, lastClose,
                 delay, mounted, firstSocket>>

\* A caller calls unsubscribeFromJob(j) of the last render (lines 324-334).
UnsubscribeFromJob(j) ==
  /\ activeSubscriptions' = activeSubscriptions \ {j}
  /\ pendingSubscriptions' = pendingSubscriptions \ {j}
  /\ intent' = intent \ {j}
  /\ IF CanSendMessage(rendered)
       THEN /\ Len(wsOut) < MaxOut
            /\ wsOut' = Append(wsOut, UnsubscribeReq(j))
       ELSE UNCHANGED wsOut
  /\ UNCHANGED <<serverVars, ws, socket, connectionState, connectionReady,
                 reconnectAttempts, reconnectTimeout, subscriptionReadyTimeout, rendered,
                 taken, toClient, fwd, confirmed, settled, scheduled, lastClose,
                 delay, mounted, firstSocket>>

\* The cleanup of the mount effect (lines 241-253): both timers are cleared,
\* and the WebSocket the effect's `const ws = connect()` holds, the first one,
\* is closed with 1000 if its readyState is OPEN. A WebSocket that connect()
\* created later on behalf of the reconnect timer is not in reach of the
\* cleanup.
Unmount ==
  /\ mounted
  /\ mounted' = FALSE
  /\ reconnectTimeout' = FALSE
  /\ delay' = 0
  /\ subscriptionReadyTimeout' = FALSE
  /\ ws' = IF firstSocket /\ ws = "OPEN" THEN "CLOSING" ELSE ws
  /\ UNCHANGED <<serverVars, socket, connectionState, connectionReady,
                 pendingSubscriptions, activeSubscriptions, reconnectAttempts, rendered,
                 wsOut, taken, toClient, fwd, intent, confirmed, settled, scheduled,
                 lastClose, firstSocket>>

\* The components that use the hook render and call it only while mounted.
MountedRender == mounted /\ Render
MountedSubscribe(j) == mounted /\ SubscribeToJob(j)
MountedUnsubscribe(j) == mounted /\ UnsubscribeFromJob(j)

\* The job of the Processing page (useParams, Processing.tsx line 17).
PageJob == 1

\* The Processing page renders and its subscription effect runs (Processing.tsx
\* lines 86-97): it calls subscribeToJob when the rendered state is
\* 'authenticated'.
ProcessingRender ==
  /\ rendered # NextRender
  /\ rendered' = NextRender
  /\ IF connectionState = "authenticated"
       THEN SubscribeCall(NextRender, PageJob)
       ELSE UNCHANGED <<activeSubscriptions, pendingSubscriptions, intent, wsOut>>
  /\ UNCHANGED <<serverVars, ws, socket, connectionState, connectionReady,
                 reconnectAttempts, reconnectTimeout, subscriptionReadyTimeout,
                 taken, toClient, fwd, confirmed, settled, scheduled, lastClose,
                 delay, mounted, firstSocket>>

\* ---------------------------------------------------------- the client's peer
\* The ways a peer deals with a request: it confirms it, denies it, or gives
\* no answer (a service that has installed no handlers yet).
Answers == {"confirm", "deny", "silent"}

\* What a service answers to request m (handleSubscription,
\* handleUnsubscription), by the way it deals with it.
AnswerTo(m, answer) ==
  CASE answer = "silent" -> << >>
    [] answer = "deny" -> << ErrorMsg("Job not found") >>
    [] answer = "confirm" /\ m.type = "subscribe" -> << SubscribedMsg(m.jobId) >>
    [] answer = "confirm" /\ m.type = "unsubscribe" -> << UnsubscribedMsg(m.jobId) >>

\* Seen from the client alone: the peer takes the next request off the open
\* connection and deals with it.
PeerTakes(answer) ==
  /\ ws = "OPEN"
  /\ taken < Len(wsOut)
  /\ taken' = taken + 1
  /\ toClient' = toClient \o AnswerTo(wsOut[taken + 1], answer)
  /\ UNCHANGED <<serverVars, ws, socket, connectionState, connectionReady,
                 pendingSubscriptions, activeSubscriptions, reconnectAttempts,
                 reconnectTimeout, subscriptionReadyTimeout, rendered, wsOut, fwd,
                 intent, confirmed, settled, scheduled, lastClose,
                 delay, mounted, firstSocket>>

\* The service accepted each connection and closes it with 1008 once session
\* validation has failed.
PeerRejects ==
  /\ ws = "OPEN"
  /\ OnClose(PolicyViolation)

\* The connection of the service that the client's first WebSocket is.
Peer == "c1"

\* How many of the client's requests have reached the service: the ones its
\* handlers took and the ones that found no handler.
Arrived == taken + Len(received[Peer])

\* wss.on('connection') for the client's WebSocket, whose cookie decodes to h.
PeerAccepts(h) ==
  /\ ws = "CONNECTING"
  /\ AcceptConnection(Peer, h)

\* The client's onopen, once the service has accepted the upgrade.
PeerOpen ==
  /\ readyState[Peer] # "NEW"
  /\ OnOpen

\* The client's next request reaches ws.on('message') of the service.
PeerSubscribe(j) ==
  /\ Arrived < Len(wsOut)
  /\ wsOut[Arrived + 1] = SubscribeReq(j)
  /\ ReceiveSubscribe(Peer, j)

PeerUnsubscribe(j) ==
  /\ Arrived < Len(wsOut)
  /\ wsOut[Arrived + 1] = UnsubscribeReq(j)
  /\ ReceiveUnsubscribe(Peer, j)

\* The client's next request reaches the service while the connection handler
\* is still awaiting authenticateConnection: setupConnectionHandlers has not
\* run, the 'message' event has no listener and the request is gone.
MessageWithoutListener ==
  /\ Arrived < Len(wsOut)
  /\ readyState[Peer] = "OPEN"
  /\ ~handlers[Peer]
  /\ taken' = taken + 1
  /\ UNCHANGED <<serverVars, ws, socket, connectionState, connectionReady,
                 pendingSubscriptions, activeSubscriptions, reconnectAttempts,
                 reconnectTimeout, subscriptionReadyTimeout, rendered, wsOut, toClient, fwd,
                 intent, confirmed, settled, scheduled, lastClose,
                 delay, mounted, firstSocket>>

\* The next message the service passed to ws.send travels to the client.
Forward ==
  /\ ws = "OPEN"
  /\ fwd < Len(sent[Peer])
  /\ fwd' = fwd + 1
  /\ toClient' = IF sent[Peer][fwd + 1].delivered
                   THEN Append(toClient, sent[Peer][fwd + 1].msg)
                   ELSE toClient
  /\ UNCHANGED <<serverVars, ws, socket, connectionState, connectionReady,
                 pendingSubscriptions, activeSubscriptions, reconnectAttempts,
                 reconnectTimeout, subscriptionReadyTimeout, rendered, wsOut, taken,
                 intent, confirmed, settled, scheduled, lastClose,
                 delay, mounted, firstSocket>>

\* The close the service started (ws.close(1008)) reaches the client.
PeerCloses ==
  /\ ws = "OPEN"
  /\ readyState[Peer] \in {"CLOSING", "CLOSED"}
  /\ closeCode[Peer] # 0
  /\ OnClose(closeCode[Peer])

\* ---------------------------------------------------------------- Next
\* Handshakes.
Handshake ==
  \/ \E c \in Conns, h \in Handshakes : AcceptConnection(c, h)
  \/ \E c \in Conns, storeErr \in BOOLEAN : AuthComplete(c, storeErr)

\* Transport events, inbound messages and subscribe handling.
Registry ==
  \/ \E c \in Conns : PeerClose(c)
  \/ \E c \in Conns : CloseEvent(c)
  \/ \E c \in Conns : ErrorEvent(c)
  \/ \E c \in Conns, j \in RequestJobIds : ReceiveSubscribe(c, j)
  \/ \E k \in CallIds : StorageGetJob(k)
  \/ \E k \in CallIds : StorageReadFails(k)
  \/ \E k \in CallIds : ResumeAfterGetJob(k)
  \/ \E k \in CallIds : ResumeAfterGetDocument(k)
  \/ \E c \in Conns, j \in JobIds : ReceiveUnsubscribe(c, j)
  \/ \E c \in Conns : ReceivePing(c)
  \/ \E c \in Conns : ReceiveMalformed(c)

\* A pipeline run whose steps and storage writes succeed.
Progress ==
  \/ \E j \in JobIds : StartPipeline(j)
  \/ \E j \in JobIds : UpdateJobPersist(j)
  \/ \E j \in JobIds, failing \in SUBSET Conns : Broadcast(j, failing)
  \/ \E j \in JobIds : StepWork(j)

\* The faults of a pipeline run.
Faults ==
  \/ \E j \in JobIds : UpdateJobFails(j)
  \/ \E j \in JobIds, e \in ErrorMessages : StepThrows(j, e)
  \/ \E j \in JobIds, ok \in BOOLEAN : CatchUpdateDocument(j, ok)

Next == Handshake \/ Registry \/ Progress \/ Faults

\* The subscription registry between authenticated connections and a running
\* pipeline.
NextRegistry == Registry \/ Progress

Spec == Established /\ [][NextRegistry]_vars

\* Inbound messages and subscribe handling, on connections that stay open.
Inbound ==
  \/ \E c \in Conns, j \in RequestJobIds : ReceiveSubscribe(c, j)
  \/ \E k \in CallIds : StorageGetJob(k)
  \/ \E k \in CallIds : StorageReadFails(k)
  \/ \E k \in CallIds : ResumeAfterGetJob(k)
  \/ \E k \in CallIds : ResumeAfterGetDocument(k)
  \/ \E c \in Conns, j \in JobIds : ReceiveUnsubscribe(c, j)
  \/ \E c \in Conns : ReceivePing(c)
  \/ \E c \in Conns : ReceiveMalformed(c)

\* A whole pipeline run, faults included, in front of one inbound message.
NextPipeline == Inbound \/ Progress \/ Faults

PipelineInit == EstablishedWith(RunMsgs, RunUpdates)

PipelineSpec == PipelineInit /\ [][NextPipeline]_vars

\* Handshakes, and what the accepted connections can then do.
NextAuth == Handshake \/ Registry

AuthInit == InitWith(RunMsgs, MaxUpdates)

AuthSpec == AuthInit /\ [][NextAuth]_vars

\* The client hook and its callers, in front of a peer that deals with each
\* request in one of the ways of a service.
NextClient ==
  \/ Connect
  \/ OnOpen
  \/ SettleTimer
  \/ OnMessage
  \/ Closing
  \/ \E code \in CloseCodes : OnClose(code)
  \/ Render
  \/ \E j \in JobIds : SubscribeToJob(j)
  \/ \E j \in JobIds : UnsubscribeFromJob(j)
  \/ \E answer \in Answers : PeerTakes(answer)

ClientSpecInit == InitWith(RunMsgs, MaxUpdates)

ClientSpec == ClientSpecInit /\ [][NextClient]_vars

\* The hook under the Processing page, its only caller in the repository.
NextPage ==
  \/ Connect
  \/ OnOpen
  \/ SettleTimer
  \/ OnMessage
  \/ Closing
  \/ \E code \in CloseCodes : OnClose(code)
  \/ ProcessingRender
  \/ \E answer \in Answers : PeerTakes(answer)

PageInit == InitWith(RunMsgs, MaxUpdates)

PageSpec == PageInit /\ [][NextPage]_vars

\* The hook in front of a service that accepts every connection and closes it
\* with 1008; timers fire and accepted sockets open and are closed.
NextRejected ==
  \/ Connect
  \/ OnOpen
  \/ SettleTimer
  \/ Render
  \/ \E j \in JobIds : SubscribeToJob(j)
  \/ \E j \in JobIds : UnsubscribeFromJob(j)
  \/ PeerRejects

RejectedInit == InitWith(RunMsgs, MaxUpdates)

RejectedSpec ==
  /\ RejectedInit
  /\ [][NextRejected]_vars
  /\ WF_vars(Connect)
  /\ WF_vars(OnOpen)
  /\ WF_vars(PeerRejects)

\* The client's first WebSocket and the service behind it, from the upgrade
\* on: session validation on one side, the settling timer on the other.
NextEndToEnd ==
  \/ \E h \in Handshakes : PeerAccepts(h)
  \/ \E storeErr \in BOOLEAN : AuthComplete(Peer, storeErr)
  \/ PeerOpen
  \/ SettleTimer
  \/ Render
  \/ \E j \in JobIds : SubscribeToJob(j)
  \/ \E j \in JobIds : UnsubscribeFromJob(j)
  \/ OnMessage
  \/ \E j \in JobIds : PeerSubscribe(j)
  \/ \E j \in JobIds : PeerUnsubscribe(j)
  \/ MessageWithoutListener
  \/ \E k \in CallIds : StorageGetJob(k)
  \/ \E k \in CallIds : StorageReadFails(k)
  \/ \E k \in CallIds : ResumeAfterGetJob(k)
  \/ \E k \in CallIds : ResumeAfterGetDocument(k)
  \/ Forward
  \/ PeerCloses
  \/ CloseEvent(Peer)

EndToEndInit == InitWith(MaxMsgs, MaxUpdates)

EndToEndSpec == EndToEndInit /\ [][NextEndToEnd]_vars

\* Handshakes in front of a session store that answers, answers with an
\* error, or does not answer. A callback the store makes is delivered and a
\* closing socket emits its 'close' event; nothing else is assumed to happen.
NextHandshake ==
  \/ \E c \in Conns, h \in Handshakes : AcceptConnection(c, h)
  \/ \E c \in Conns, storeErr \in BOOLEAN : AuthComplete(c, storeErr)
  \/ \E c \in Conns : StoreNeverCallsBack(c)
  \/ \E c \in Conns : PeerClose(c)
  \/ \E c \in Conns : CloseEvent(c)

HandshakeInit == InitWith(RunMsgs, MaxUpdates)

HandshakeSpec ==
  /\ HandshakeInit
  /\ [][NextHandshake]_vars
  /\ \A c \in Conns : WF_vars(\E storeErr \in BOOLEAN : AuthComplete(c, storeErr))
  /\ \A c \in Conns : WF_vars(CloseEvent(c))

\* The hook with its unmount: the browser events and timers go on after the
\* cleanup has run, the components do not.
NextUnmount ==
  \/ Connect
  \/ OnOpen
  \/ SettleTimer
  \/ OnMessage
  \/ Closing
  \/ \E code \in CloseCodes : OnClose(code)
  \/ Unmount
  \/ MountedRender
  \/ \E j \in JobIds : MountedSubscribe(j)
  \/ \E j \in JobIds : MountedUnsubscribe(j)
  \/ \E answer \in Answers : PeerTakes(answer)

UnmountInit == InitWith(RunMsgs, MaxUpdates)

UnmountSpec == UnmountInit /\ [][NextUnmount]_vars

\* ================================================================ properties
\* What invocation k of handleSubscription passed to ws.send, in order.
Replies(k) ==
  LET ByCall(e) == e.call = k
      es == SelectSeq(sent[calls[k].conn], ByCall)
  IN [i \in 1..Len(es) |-> es[i].msg]

\* The progress messages of job j among m's kind.
IsProgress(m, j) == m.type = "progress" /\ m.jobId = j
IsSubscribed(m, j) == m.type = "subscribed" /\ m.jobId = j

\* ------------------------------------------------------------------- C1
\* C1: every connection in a job's subscriber set is authenticated as the
\* job's owner, and every progress message (snapshot or broadcast) passed to a
\* connection is for a job its user owns.
C1_SubscribersOwnJob ==
  /\ \A j \in DOMAIN subscriptions : \A c \in subscriptions[j] :
       /\ j \in DOMAIN jobs
       /\ isAuthenticated[c]
       /\ userId[c] = jobs[j].userId
  /\ \A c \in Conns : \A i \in DOMAIN sent[c] :
       sent[c][i].msg.type = "progress"
         => /\ sent[c][i].msg.jobId \in DOMAIN jobs
            /\ jobs[sent[c][i].msg.jobId].userId = userId[c]

\* A connection subscribed to its own job got a broadcast, and another
\* user's subscribe to that job was refused.
C1_Witness ==
  \E c \in Conns, j \in DOMAIN subscriptions :
    /\ c \in subscriptions[j]
    /\ \E i \in DOMAIN sent[c] :
         sent[c][i].call = 0 /\ sent[c][i].delivered /\ IsProgress(sent[c][i].msg, j)
    /\ \E k \in DOMAIN calls :
         calls[k].jobId = j /\ calls[k].outcome = "unauthorized"

\* ------------------------------------------------------------------- C2
\* C2: a subscribe call for a job of another user never sends 'subscribed'
\* or 'progress' and never inserts the connection; once it has returned it
\* has sent exactly one error message.
C2_ForeignSubscribeDenied ==
  \A k \in DOMAIN calls :
    LET c == calls[k].conn
        j == calls[k].jobId
    IN (j \in DOMAIN jobs /\ jobs[j].userId # userId[c]) =>
         /\ \A i \in DOMAIN Replies(k) : Replies(k)[i].type = "error"
         /\ c \notin Subscribers(j)
         /\ calls[k].pc = "done" =>
              /\ Len(Replies(k)) = 1
              /\ calls[k].outcome \in {"unauthorized", "error"}

\* A subscribe to another user's job was answered 'Unauthorized'.
C2_Witness ==
  \E k \in DOMAIN calls :
    /\ calls[k].outcome = "unauthorized"
    /\ jobs[calls[k].jobId].userId # userId[calls[k].conn]
    /\ Replies(k) = << ErrorMsg("Unauthorized: You can only access your own jobs") >>

\* ------------------------------------------------------------------- C3
\* C3 as stated: c is in j's subscriber set exactly when its latest
\* successful subscribe(j) was not followed by an unsubscribe(j) or by its
\* close/error event.
C3_MemberIffSubscribed ==
  \A c \in Conns, j \in RequestJobIds : c \in Subscribers(j) <=> <<c, j>> \in member

\* C3 amended: c is in j's subscriber set exactly when its latest successful
\* subscribe(j) was not followed by an unsubscribe(j), by its close/error
\* event, or by a broadcast for j whose sweep pruned c (transport not OPEN, or
\* the send threw).
C3_MemberIffSubscribedNotPruned ==
  \A c \in Conns, j \in RequestJobIds :
    c \in Subscribers(j) <=> (<<c, j>> \in member /\ <<c, j>> \notin pruned)

\* A connection that subscribed, did not unsubscribe and saw no close event
\* was pruned by a broadcast.
C3_Witness ==
  \E c \in Conns, j \in JobIds :
    /\ <<c, j>> \in member
    /\ <<c, j>> \in pruned
    /\ c \notin Subscribers(j)
    /\ ~dropped[c]

\* ------------------------------------------------------------------- C4
\* C4: once cleanupSubscriptions has run for a connection, the connection is
\* in no subscriber set.
C4_NoSubscriberAfterCleanup ==
  \A c \in Conns : dropped[c] => \A j \in DOMAIN subscriptions : c \notin subscriptions[j]

\* ------------------------------------------------------------------- C5
\* The latest broadcast of its job.
Latest(i) == \A n \in DOMAIN bcasts : (n > i) => bcasts[n].jobId # bcasts[i].jobId

\* The subscribe calls of connection c that were being handled during
\* broadcast i.
Racing(c, i) == {k \in bcasts[i].racing : calls[k].conn = c}

\* How many messages carrying the update of broadcast i connection c
\* received: the broadcast itself and the snapshots of its racing calls.
Carrying(c, i) ==
  Cardinality({n \in DOMAIN sent[c] :
                 /\ sent[c][n].delivered
                 /\ sent[c][n].msg = bcasts[i].msg
                 /\ sent[c][n].call \in {0} \cup bcasts[i].racing})

\* C5: an update goes exactly once to every subscriber of the job whose
\* transport took it, to nobody outside the job's set, and exactly once
\* (snapshot plus broadcast) to a connection whose subscribe was being handled
\* while the update was broadcast and succeeded.
C5_ExactlyOncePerUpdate ==
  \A i \in DOMAIN bcasts :
    LET b == bcasts[i] IN
      /\ \A c \in b.delivered :
           (\A k \in Racing(c, i) : calls[k].pc = "done") => Carrying(c, i) = 1
      /\ \A c \in Conns \ b.subscribers :
           \A n \in DOMAIN sent[c] : ~(sent[c][n].call = 0 /\ sent[c][n].msg = b.msg)
      /\ \A c \in Conns \ b.subscribers :
           ( /\ Racing(c, i) # {}
             /\ \A k \in Racing(c, i) : calls[k].outcome = "ok"
             /\ Latest(i)
             /\ c \in Subscribers(b.jobId)
             /\ readyState[c] = "OPEN" )
           => Carrying(c, i) = 1

\* ------------------------------------------------------------------- C6
\* The snapshot the contract asks for, for a stored row.
ExpectedSnapshot(j, row) ==
  [type |-> "progress", jobId |-> j,
   status |-> IF row.status = NULL THEN "PENDING" ELSE row.status,
   progress |-> row.progress,
   currentStep |-> IF row.currentStep = NULL THEN "Starting..." ELSE row.currentStep,
   errorMessage |-> row.errorMessage]

\* C6: the step in which a subscribe call sends its snapshot leaves the call
\* with 'subscribed' for the job and then a snapshot equal to the job's stored
\* row, with the defaults for unset fields.
C6_SnapshotEqualsStored ==
  [][ \A k \in DOMAIN calls :
        (calls[k].pc = "getDocument" /\ calls'[k].outcome = "ok")
        => Replies(k)' = << SubscribedMsg(calls[k].jobId),
                            ExpectedSnapshot(calls[k].jobId, jobs[calls[k].jobId]) >>
    ]_vars

\* ------------------------------------------------------------------- C7
\* C7: a subscribe call that sent 'subscribed' and returned has sent the
\* snapshot after it.
C7_SnapshotAfterSubscribed ==
  \A k \in DOMAIN calls :
    (calls[k].pc = "done" /\ \E i \in DOMAIN Replies(k) : Replies(k)[i].type = "subscribed")
      => \E i, n \in DOMAIN Replies(k) :
           /\ i < n
           /\ IsSubscribed(Replies(k)[i], calls[k].jobId)
           /\ IsProgress(Replies(k)[n], calls[k].jobId)

\* ------------------------------------------------------------------- C8
\* The position of a progress message's state in the run of its job.
Rank(m) ==
  IF m.currentStep = "Starting..." THEN 0
  ELSE IF m.currentStep = "Processing failed" THEN Len(Steps) + 1
  ELSE CHOOSE i \in 1..Len(Steps) : Steps[i].currentStep = m.currentStep

\* C8: no broadcast of the job reaches the connection between a call's
\* 'subscribed' and its snapshot, and no snapshot carries a state older than a
\* broadcast the connection received before it.
C8_SnapshotImmediate ==
  \A c \in Conns : \A i, m, n \in DOMAIN sent[c] :
    LET a == sent[c][i]
        x == sent[c][m]
        z == sent[c][n]
    IN /\ ( /\ i < m /\ m < n
            /\ a.call # 0 /\ a.msg.type = "subscribed"
            /\ z.call = a.call /\ z.msg.type = "progress" )
          => ~(x.call = 0 /\ x.delivered /\ IsProgress(x.msg, a.msg.jobId))
       /\ ( /\ m < n
            /\ x.call = 0 /\ x.delivered /\ x.msg.type = "progress"
            /\ z.call # 0 /\ z.delivered /\ IsProgress(z.msg, x.msg.jobId) )
          => Rank(z.msg) >= Rank(x.msg)

\* ------------------------------------------------------------------- C9
\* No unsubscribe, close event or sweep has taken c out of j's set so far.
NeverRemoved(c, j) ==
  /\ ~dropped[c]
  /\ \A i \in DOMAIN received[c] :
       ~(received[c][i].type = "unsubscribe" /\ received[c][i].jobId = j)
  /\ \A i \in DOMAIN bcasts :
       bcasts[i].jobId = j => c \notin bcasts[i].subscribers \ bcasts[i].delivered

\* C9: of two subscribe calls of one connection for one job that both ran to
\* their end, each sent 'subscribed' and a snapshot, each grew the set by at
\* most 1 and not at all when the connection was in it, and together they
\* grew it by at most 1.
C9_SubscribeTwice ==
  \A k1, k2 \in DOMAIN calls :
    ( /\ k1 < k2
      /\ calls[k1].conn = calls[k2].conn
      /\ calls[k1].jobId = calls[k2].jobId
      /\ calls[k1].outcome = "ok"
      /\ calls[k2].outcome = "ok" )
    => LET c == calls[k1].conn
           j == calls[k1].jobId
           grew(k) == calls[k].sizeAfter - calls[k].sizeBefore
       IN /\ \A k \in {k1, k2} :
               /\ Len(Replies(k)) = 2
               /\ IsSubscribed(Replies(k)[1], j)
               /\ IsProgress(Replies(k)[2], j)
               /\ grew(k) \in {0, 1}
               /\ calls[k].wasMember => grew(k) = 0
          /\ NeverRemoved(c, j) => grew(k1) + grew(k2) <= 1

\* Two subscribe calls of one connection for one job ran to their end, the
\* connection staying in the set between them.
C9_Witness ==
  \E k1, k2 \in DOMAIN calls :
    /\ k1 < k2
    /\ calls[k1].conn = calls[k2].conn
    /\ calls[k1].jobId = calls[k2].jobId
    /\ calls[k1].outcome = "ok"
    /\ calls[k2].outcome = "ok"
    /\ calls[k2].wasMember
    /\ NeverRemoved(calls[k1].conn, calls[k1].jobId)
    /\ Cardinality(Subscribers(calls[k1].jobId)) = 1

\* ------------------------------------------------------------------ C10
\* C10: handling unsubscribe(j) from an authenticated connection appends
\* exactly the 'unsubscribed' reply for j, takes the connection out of j's
\* set, deletes the entry when nobody is left, and changes nothing in the
\* registry when the connection was not in the set.
C10_UnsubscribeIdempotent ==
  [][ \A c \in Conns, j \in RequestJobIds :
        ( /\ received'[c] = Append(received[c], [type |-> "unsubscribe", jobId |-> j])
          /\ isAuthenticated[c] /\ userId[c] # NULL )
        => /\ Len(sent'[c]) = Len(sent[c]) + 1
           /\ sent'[c][Len(sent'[c])].msg = UnsubscribedMsg(j)
           /\ \A d \in Conns \ {c} : sent'[d] = sent[d]
           /\ c \notin Subscribers(j) => subscriptions' = subscriptions
           /\ c \in Subscribers(j) =>
                /\ \A i \in DOMAIN subscriptions \ {j} :
                     i \in DOMAIN subscriptions' /\ subscriptions'[i] = subscriptions[i]
                /\ DOMAIN subscriptions' \subseteq DOMAIN subscriptions
                /\ IF subscriptions[j] = {c}
                     THEN j \notin DOMAIN subscriptions'
                     ELSE j \in DOMAIN subscriptions' /\ subscriptions'[j] = subscriptions[j] \ {c}
    ]_vars

\* A connection subscribed to a job, then unsubscribed: the reply is there
\* and the job's entry is gone.
C10_Witness ==
  \E c \in Conns, j \in JobIds :
    /\ Len(sent[c]) >= 3
    /\ IsSubscribed(sent[c][1].msg, j)
    /\ sent[c][Len(sent[c])].msg = UnsubscribedMsg(j)
    /\ received[c][Len(received[c])] = [type |-> "unsubscribe", jobId |-> j]
    /\ j \notin DOMAIN subscriptions

\* ------------------------------------------------------------------ C11
\* The status, progress, step and error message of a stored row or of a
\* progress message.
Fields(r) ==
  [status |-> r.status, progress |-> r.progress,
   currentStep |-> r.currentStep, errorMessage |-> r.errorMessage]

\* The step issues a broadcast for job j.
Broadcasts(j) ==
  /\ Len(bcasts') = Len(bcasts) + 1
  /\ bcasts'[Len(bcasts')].jobId = j

\* C11: in the step that broadcasts an event of job j the stored row of j
\* holds the event's status, progress, step and error message, before and
\* after the step; and an update is on its way to the broadcast only when its
\* write has put these fields into the row.
C11_PersistThenBroadcast ==
  [][ \A j \in JobIds :
        /\ Broadcasts(j) =>
             /\ Fields(jobs[j]) = Fields(bcasts'[Len(bcasts')].msg)
             /\ jobs'[j] = jobs[j]
        /\ (pipeline[j].pc = "update" /\ pipeline'[j].pc = "persisted") =>
             Fields(jobs'[j]) = UpdateFields(pipeline[j])
        /\ (pipeline[j].pc = "update" /\ pipeline'[j].pc # "update" /\ jobs'[j] = jobs[j]) =>
             /\ ~Broadcasts(j)
             /\ pipeline'[j].pc # "persisted"
    ]_vars

\* The write of the first update failed and nothing was broadcast for it; the
\* second update was persisted and then broadcast.
C11_Witness ==
  \E j \in PipelineJobs :
    /\ \E i \in DOMAIN bcasts :
         bcasts[i].jobId = j /\ bcasts[i].msg.progress = Steps[2].progress
    /\ \A i \in DOMAIN bcasts :
         bcasts[i].jobId = j => bcasts[i].msg.progress # Steps[1].progress
    /\ Fields(jobs[j]).progress = Steps[2].progress

\* ------------------------------------------------------------------ C12
\* The progress messages of job j that broadcasts passed to connection c, in
\* the order of the sends.
BroadcastsTo(c, j) ==
  LET FromBroadcast(e) == e.call = 0 /\ IsProgress(e.msg, j)
      es == SelectSeq(sent[c], FromBroadcast)
  IN [i \in 1..Len(es) |-> es[i].msg]

\* The events the pipeline emitted for job j, in order.
Emitted(j) ==
  LET OfJob(e) == e.jobId = j IN SelectSeq(bcasts, OfJob)

\* Those of them that were sent to connection c, in order.
EmittedTo(c, j) ==
  LET ToC(e) == c \in e.delivered
      es == SelectSeq(Emitted(j), ToC)
  IN [i \in 1..Len(es) |-> es[i].msg]

\* C12: the events of a job are emitted in the order of the pipeline's steps;
\* a connection is sent exactly the events emitted while it was an open
\* subscriber, one message per event and in the order of emission; and a
\* connection that was never taken out of the set misses none after the first
\* it got.
C12_BroadcastOrder ==
  \A j \in JobIds :
    /\ \A i, n \in DOMAIN Emitted(j) :
         i < n => Rank(Emitted(j)[i].msg) < Rank(Emitted(j)[n].msg)
    /\ \A c \in Conns :
         /\ BroadcastsTo(c, j) = EmittedTo(c, j)
         /\ NeverRemoved(c, j) =>
              \A i, n \in DOMAIN Emitted(j) :
                (i < n /\ c \in Emitted(j)[i].delivered) => c \in Emitted(j)[n].delivered

\* A connection that subscribed after the run had started got every later
\* event up to the last one, four or more of them.
C12_Witness ==
  \E c \in Conns, j \in PipelineJobs :
    /\ NeverRemoved(c, j)
    /\ Len(BroadcastsTo(c, j)) >= 4
    /\ Len(BroadcastsTo(c, j)) < Len(Emitted(j))
    /\ BroadcastsTo(c, j)[Len(BroadcastsTo(c, j))].status = "COMPLETED"

\* ------------------------------------------------------------------ C13
Terminal(status) == status \in {"COMPLETED", "FAILED"}

\* PENDING before PROCESSING before the terminal statuses.
StatusRank(status) ==
  IF status = "PENDING" THEN 0 ELSE IF status = "PROCESSING" THEN 1 ELSE 2

\* An event with a terminal status was broadcast for job j.
TerminalBroadcast(j) ==
  \E i \in DOMAIN bcasts : bcasts[i].jobId = j /\ Terminal(bcasts[i].msg.status)

ValidHandshake(h) ==
  /\ h \in SessionIds
  /\ h \in DOMAIN SessionStoreRecords
  /\ SessionStoreRecords[h].sub # NULL
  /\ ~SessionStoreRecords[h].expired

\* What authentication sets on a connection.
AuthMarks(c) == <<isAuthenticated[c], userId[c], sessionId[c], handlers[c]>>

\* C14: the step that ends a connection's session validation marks it
\* authenticated, with the record's user id, the session id and the message
\* handlers, only for a valid handshake whose store lookup did not fail; in
\* every other case it sets none of them and closes the connection with 1008
\* (unless the peer has closed it already); no other step changes the marks.
C14_FailClosed ==
  [][ \A c \in Conns :
        IF authPending[c] # NULL /\ authPending'[c] = NULL
          THEN LET h == authPending[c] IN
                 IF ValidHandshake(h) /\ ~storeError'[c]
                   THEN /\ AuthMarks(c)' = <<TRUE, SessionStoreRecords[h].sub, h, TRUE>>
                        /\ readyState'[c] = readyState[c]
                        /\ closeCode'[c] = 0
                   ELSE /\ AuthMarks(c)' = <<FALSE, NULL, NULL, FALSE>>
                        /\ readyState'[c] # "OPEN"
                        /\ readyState[c] = "OPEN" => closeCode'[c] = PolicyViolation
          ELSE AuthMarks(c)' = AuthMarks(c)
    ]_vars

\* One connection was authenticated; another, whose session id names a valid
\* record, met a store error and was closed with 1008 without being marked.
C14_Witness ==
  \E c, d \in Conns :
    /\ isAuthenticated[c] /\ handlers[c] /\ userId[c] = "alice"
    /\ storeError[d] /\ ~isAuthenticated[d] /\ ~handlers[d]
    /\ closeCode[d] = PolicyViolation
    /\ readyState[d] = "CLOSED"

\* ------------------------------------------------------------------ C15
\* The error texts of the denials that end one request.
DenialTexts ==
  {"Authentication required", "Unauthorized: You can only access your own jobs",
   "Job not found", "Invalid message format"}

\* The step sends connection c one of these errors.
Denies(c) ==
  /\ Len(sent'[c]) = Len(sent[c]) + 1
  /\ sent'[c][Len(sent'[c])].msg.type = "error"
  /\ sent'[c][Len(sent'[c])].msg.message \in DenialTexts

\* The step takes in a subscribe request or reads its job row.
BeforeAnswer ==
  \/ Len(calls') = Len(calls) + 1
  \/ \E k \in DOMAIN calls : calls[k].pc = "getJob" /\ calls'[k].pc = "gotJob"

\* C15: a step that answers a request with an AuthenticationRequired,
\* Unauthorized, NotFound or malformed-message error, and the steps of that
\* request before the answer, change no subscriber set, close no connection
\* and send nothing to another connection.
C15_DenialIsLocal ==
  [][ /\ \A c \in Conns :
           Denies(c) =>
             /\ subscriptions' = subscriptions
             /\ readyState' = readyState
             /\ closeCode' = closeCode
             /\ \A d \in Conns \ {c} : sent'[d] = sent[d]
      /\ BeforeAnswer =>
           /\ subscriptions' = subscriptions
           /\ readyState' = readyState
           /\ sent' = sent
    ]_vars

\* A connection is subscribed to its job, another user's subscribe to that
\* job was refused, and both connections are open.
C15_Witness ==
  \E c, d \in Conns, j \in JobIds :
    /\ c # d
    /\ c \in Subscribers(j)
    /\ \E k \in DOMAIN calls :
         calls[k].conn = d /\ calls[k].jobId = j /\ calls[k].outcome = "unauthorized"
    /\ readyState[c] = "OPEN" /\ readyState[d] = "OPEN"

\* ------------------------------------------------------------------ C16
\* C16: a subscribe call that replied 'Failed to subscribe to job updates'
\* because getJob or getDocument failed has sent no 'subscribed' and has not
\* added the connection to the job's subscriber set.
C16_StorageErrorDenies ==
  \A k \in DOMAIN calls :
    calls[k].outcome = "error" =>
      /\ \A i \in DOMAIN Replies(k) : Replies(k)[i].type # "subscribed"
      /\ calls[k].sizeAfter = calls[k].sizeBefore

\* ------------------------------------------------------------------ C17
\* The event of the broadcast the step issues.
NewEvent == bcasts'[Len(bcasts')]

\* The subscribers of the event that were open during the sweep and whose
\* send did not throw.
Served(e) == {c \in e.subscribers : readyState[c] = "OPEN" /\ c \notin e.failing}

\* C17: after a broadcast for job j the job's subscriber set is what it was
\* without the connections that were not open or whose send threw; the job
\* has no entry when nobody is left; the other entries are as they were.
C17_SweepRemovesDead ==
  [][ \A j \in JobIds :
        Broadcasts(j) =>
          /\ NewEvent.subscribers = Subscribers(j)
          /\ Subscribers(j)' = Served(NewEvent)
          /\ Served(NewEvent) = {} => j \notin DOMAIN subscriptions'
          /\ \A i \in DOMAIN subscriptions \ {j} :
               i \in DOMAIN subscriptions' /\ subscriptions'[i] = subscriptions[i]
          /\ DOMAIN subscriptions' \subseteq DOMAIN subscriptions
    ]_vars

\* A broadcast found two subscribers, one of them closing before its close
\* event: the set now holds the other one alone.
C17_Witness ==
  \E i \in DOMAIN bcasts : \E c, d \in Conns :
    /\ c # d
    /\ bcasts[i].subscribers = {c, d}
    /\ bcasts[i].failing = {}
    /\ bcasts[i].delivered = {c}
    /\ ~dropped[d]
    /\ Subscribers(bcasts[i].jobId) = {c}

\* ------------------------------------------------------------------ C18
\* C18: in a broadcast every subscriber that is open and whose send does not
\* throw is sent the event once, the others are sent nothing, then or in a
\* retry, nobody else is sent anything, and the pipeline goes on as after any
\* update.
C18_DeadDoesNotBlock ==
  [][ \A j \in JobIds :
        Broadcasts(j) =>
          /\ \A c \in Served(NewEvent) :
               sent'[c] = Append(sent[c], [msg |-> NewEvent.msg, call |-> 0, delivered |-> TRUE])
          /\ \A c \in Conns \ Served(NewEvent) : sent'[c] = sent[c]
          /\ pipeline'[j] = AfterUpdate(pipeline[j])
    ]_vars

\* The send to one of two subscribers threw: the other one got the event, the
\* first one got nothing and was pruned.
C18_Witness ==
  \E i \in DOMAIN bcasts : \E c, d \in Conns :
    /\ c # d
    /\ bcasts[i].subscribers = {c, d}
    /\ bcasts[i].failing = {d}
    /\ \E n \in DOMAIN sent[c] : sent[c][n].call = 0 /\ sent[c][n].msg = bcasts[i].msg
    /\ \A n \in DOMAIN sent[d] : sent[d][n].call # 0
    /\ <<d, bcasts[i].jobId>> \in pruned

\* ------------------------------------------------------------------ C19
\* C19: a broadcast for a job without a registry entry sends nothing, leaves
\* the registry as it is, without an entry for the job, and returns to the
\* pipeline, which goes on as after any update.
C19_NoSubscribersNoop ==
  [][ \A j \in JobIds :
        (Broadcasts(j) /\ j \notin DOMAIN subscriptions) =>
          /\ sent' = sent
          /\ subscriptions' = subscriptions
          /\ pipeline'[j] = AfterUpdate(pipeline[j])
    ]_vars

\* An update was broadcast while its job had no entry, next to a subscriber
\* of another job: nobody was sent a broadcast and the job still has no entry.
C19_Witness ==
  \E i \in DOMAIN bcasts :
    /\ bcasts[i].subscribers = {}
    /\ bcasts[i].jobId \notin DOMAIN subscriptions
    /\ DOMAIN subscriptions # {}
    /\ \A c \in Conns : \A n \in DOMAIN sent[c] : sent[c][n].call # 0 \/ sent[c][n].msg.type # "progress"

\* ------------------------------------------------------------------ C20
\* C20: the registry holds no entry whose subscriber set is empty.
C20_NoEmptyEntry ==
  \A j \in DOMAIN subscriptions : subscriptions[j] # {}

\* The only subscriber of a job went away with its close or error event: the
\* job's entry is gone and the entry of another job is still there.
C20_Witness ==
  \E k \in DOMAIN calls :
    /\ calls[k].outcome = "ok"
    /\ calls[k].sizeAfter = 1
    /\ dropped[calls[k].conn]
    /\ calls[k].jobId \notin DOMAIN subscriptions
    /\ DOMAIN subscriptions # {}

\* ------------------------------------------------------------------ C21
\* C21: while the caller has a subscription intent for a job id (its latest
\* call for the id was subscribeToJob), the id is in exactly one of the
\* client's pending and active sets.
C21_PendingXorActive ==
  \A j \in intent : (j \in pendingSubscriptions) # (j \in activeSubscriptions)

\* ------------------------------------------------------------------ C22
\* The step in which the settling timer of the current WebSocket fires: the
\* client reaches 'authenticated'.
ReachesAuthenticated == ~settled /\ settled'

\* The requests the step passes to ws.send.
EmittedNow == SubSeq(wsOut', Len(wsOut) + 1, Len(wsOut'))

\* C22: each time the client reaches 'authenticated' it sends a subscribe
\* request for every job id the caller has subscribed to and not unsubscribed
\* since, whatever happened to the connections before.
C22_ResubscribesEveryIntent ==
  [][ ReachesAuthenticated =>
        \A j \in intent : \E i \in DOMAIN EmittedNow : EmittedNow[i] = SubscribeReq(j)
    ]_vars

\* ------------------------------------------------------------------ C23
\* How many subscribe requests for job j the client passed to ws.send of the
\* current WebSocket.
SubscribesOn(j) == Cardinality({i \in DOMAIN wsOut : wsOut[i] = SubscribeReq(j)})

\* C23: reaching 'authenticated' empties the pending set, and a connection
\* carries the subscribe request of a job id once, not more: once for each id
\* of pending and active in the step that reaches 'authenticated', and none
\* before it or after it.
C23_OncePerConnection ==
  [][ /\ ReachesAuthenticated =>
           /\ pendingSubscriptions' = {}
           /\ \A j \in pendingSubscriptions \cup activeSubscriptions : SubscribesOn(j)' = 1
      /\ \A j \in JobIds : SubscribesOn(j)' <= 1
    ]_vars

\* ------------------------------------------------------------------ C24
\* C24: a job id the caller has no subscription intent for (it was never
\* subscribed, or unsubscribeFromJob was its latest call) is in neither set,
\* and no step passes a subscribe request for it to ws.send.
C24_CancelledStaysOut ==
  [][ \A j \in JobIds \ intent' :
        /\ j \notin pendingSubscriptions' \cup activeSubscriptions'
        /\ \A i \in DOMAIN EmittedNow : EmittedNow[i] # SubscribeReq(j)
    ]_vars

\* ------------------------------------------------------------------ C25
\* Whether a subscribe request is among the requests q.
HasSubscribe(q) == \E i \in DOMAIN q : q[i].type = "subscribe"

\* C25: a WebSocket carries no subscribe request before its settling timer
\* has fired; a step taken in state disconnected, connecting or connected,
\* other than the timer's, sends no subscribe request, and the job id of a
\* subscribeToJob call made in such a state is in the pending set after it.
C25_NoSubscribeBeforeSettled ==
  [][ /\ HasSubscribe(wsOut') => settled'
      /\ (connectionState # "authenticated" /\ ~ReachesAuthenticated)
           => ~HasSubscribe(EmittedNow)
      /\ \A j \in intent' \ intent :
           connectionState # "authenticated" => j \in pendingSubscriptions'
    ]_vars

\* subscribeToJob was called on an open socket whose settling timer is still
\* pending: nothing was sent and the job ids wait in the pending set.
C25_Witness ==
  /\ ws = "OPEN"
  /\ connectionState = "connected"
  /\ subscriptionReadyTimeout
  /\ intent # {}
  /\ intent \subseteq pendingSubscriptions
  /\ wsOut = << >>

\* ------------------------------------------------------------------ C27
\* The step in which the close event of the current WebSocket is handled.
CloseStep == ws # "CLOSED" /\ ws' = "CLOSED"

\* C27: after the close event of a connection every job id that was in the
\* active set is in the pending set, and the active set is empty.
C27_CloseMovesActiveToPending ==
  [][ CloseStep =>
        /\ activeSubscriptions \subseteq pendingSubscriptions'
        /\ activeSubscriptions' = {}
    ]_vars

\* A connection with a confirmed subscription has closed: the confirmed job
\* id left the active set for the pending set.
C27_Witness ==
  /\ ws = "CLOSED"
  /\ confirmed # {}
  /\ confirmed \subseteq pendingSubscriptions
  /\ activeSubscriptions = {}

\* ------------------------------------------------------------------ C28
\* C28: a job id is in the active set only if a 'subscribed' message for it
\* arrived on the current WebSocket, and a job id the caller subscribed to
\* that is not confirmed on it is in the pending set.
C28_ActiveIsConfirmed ==
  /\ \A j \in activeSubscriptions : j \in confirmed
  /\ \A j \in intent \ confirmed : j \in pendingSubscriptions

\* ------------------------------------------------------------------ C29
\* The client has given up: its WebSocket is closed and no reconnect is
\* scheduled.
GaveUp == ws = "CLOSED" /\ ~reconnectTimeout

\* C29 as stated, counting every reconnect attempt the client ever made: no
\* more than 5 reconnects are scheduled.
C29_AtMostFiveAttempts == scheduled <= MaxReconnectAttempts

\* C29, amended to count the attempts made since a connection last opened: a
\* close schedules a reconnect exactly when its code is not 1000 and fewer
\* than 5 such attempts were made; a client that has given up, as it does when
\* the fifth attempt in a row closes without having opened, schedules nothing
\* further and stays disconnected.
C29_ReconnectCeiling ==
  [][ /\ CloseStep =>
           /\ reconnectTimeout' <=>
                (lastClose' # NormalClosure /\ reconnectAttempts < MaxReconnectAttempts)
           /\ reconnectAttempts' = IF reconnectTimeout' THEN reconnectAttempts + 1
                                   ELSE reconnectAttempts
      /\ reconnectTimeout' /\ ~reconnectTimeout => CloseStep
      /\ GaveUp => GaveUp' /\ connectionState' = "disconnected"
    ]_vars

\* Five attempts in a row closed without opening: the client has given up
\* after an abnormal close.
C29_Witness ==
  /\ GaveUp
  /\ reconnectAttempts = MaxReconnectAttempts
  /\ lastClose = AbnormalClosure
  /\ connectionState = "disconnected"

\* ------------------------------------------------------------------ C30
\* C30: a client whose connections are each accepted and then closed by the
\* service with 1008 eventually has a closed WebSocket and no reconnect
\* scheduled, for good.
C30_RejectedClientStops == <>[]GaveUp

\* ------------------------------------------------------------------ C26
\* Nothing is under way between the client and the service: the session is
\* validated, the settling timer has fired, the connection is open at both
\* ends, every request the client sent was handled or lost, every invocation
\* of handleSubscription has returned without a storage error, every answer
\* has arrived, and the components have rendered.
AtRest ==
  /\ ws = "OPEN"
  /\ readyState[Peer] = "OPEN"
  /\ authPending[Peer] = NULL
  /\ isAuthenticated[Peer]
  /\ settled
  /\ rendered = NextRender
  /\ Arrived = Len(wsOut)
  /\ \A k \in DOMAIN calls : calls[k].pc = "done" /\ calls[k].outcome # "error"
  /\ fwd = Len(sent[Peer])
  /\ toClient = << >>

\* C26: once a client with a valid session has connected and nothing is under
\* way any more on its open connection, the subscriber set of every job it
\* owns, has a subscription intent for and has sent a subscribe request for
\* on the connection contains the connection.
C26_IntentReachesRegistry ==
  AtRest =>
    \A j \in intent :
      (JobOwner[j] = userId[Peer] /\ SubscribesOn(j) > 0) => Peer \in Subscribers(j)

\* ---------------------------------------------------------------- C31
\* The delay the claim gives for the n-th consecutive attempt.
ClaimedDelay(n) ==
  IF BackoffBase * Pow2(n - 1) < BackoffCap THEN BackoffBase * Pow2(n - 1) ELSE BackoffCap

\* C31: the delay before the n-th consecutive reconnect attempt (n = 1..5,
\* counted since the last successful open) is min(1000 * 2^(n-1), 30000) ms:
\* 1000 ms for the first attempt, doubling per attempt, never above 30000 ms.
\* While a reconnect timer is pending, reconnectAttempts is the number n of
\* the attempt it was set for.
C31_BackoffDelay ==
  (reconnectTimeout /\ reconnectAttempts >= 1) => delay = ClaimedDelay(reconnectAttempts)

\* ---------------------------------------------------------------- C32
\* C32: no handshake stays pending forever: every accepted connection
\* eventually either becomes authenticated, with its handlers installed, or is
\* closed with status 1008, also when the session-store lookup never calls
\* back. (A connection the peer closed in the meantime counts as settled.)
C32_HandshakeSettles ==
  \A c \in Conns :
    (authPending[c] # NULL) ~>
      (handlers[c] \/ closeCode[c] = PolicyViolation \/ readyState[c] # "OPEN")

\* ---------------------------------------------------------------- C33
\* C33: within one job's lifetime, the progress percentage carried by
\* successive pipeline updates, persisted and broadcast, is monotonically
\* non-decreasing, including the final update of a failed job: no event of a
\* job carries less than an earlier one, and the row holds no less than the
\* latest event.
C33_ProgressMonotone ==
  \A j \in PipelineJobs :
    /\ \A i, n \in DOMAIN Emitted(j) :
         i < n => Emitted(j)[i].msg.progress <= Emitted(j)[n].msg.progress
    /\ Emitted(j) # << >> =>
         Emitted(j)[Len(Emitted(j))].msg.progress <= jobs[j].progress

\* ---------------------------------------------------------------- C37
\* The latest event broadcast for job j.
LastEmitted(j) == Emitted(j)[Len(Emitted(j))].msg

\* C37: every processVideo run leaves its job in a terminal status: once the
\* run has returned, the last persisted and broadcast update has status
\* COMPLETED when all steps succeeded and status FAILED when a step threw,
\* whatever the error thrown (an empty message included). Runs whose last
\* update was lost to a storage fault are left aside.
C37_TerminalStatus ==
  \A j \in PipelineJobs :
    (pipeline[j].pc = "done" /\ Emitted(j) # << >>) =>
      /\ (pipeline[j].failed /\ LastEmitted(j).currentStep = "Processing failed") =>
           (LastEmitted(j).status = "FAILED" /\ jobs[j].status = "FAILED")
      /\ (~pipeline[j].failed /\ LastEmitted(j).progress = 100) =>
           (LastEmitted(j).status = "COMPLETED" /\ jobs[j].status = "COMPLETED")

\* ---------------------------------------------------------------- C34
\* The reply the service owes to an inbound message of the given type.
ReplyTo(type) == IF type = "ping" THEN PongMsg ELSE ErrorMsg("Invalid message format")

\* C34: an inbound payload that cannot be decoded makes the server reply with
\* exactly one error message 'Invalid message format' to the sender, and an
\* inbound ping makes it reply with a pong; in both cases the connection
\* remains open, nothing is sent to anybody else and the subscription
\* registry is unchanged.
C34_MalformedAndPing ==
  [][\A c \in Conns :
       (/\ Len(received'[c]) = Len(received[c]) + 1
        /\ received'[c][Len(received'[c])].type \in {"malformed", "ping"})
         => /\ sent' = [sent EXCEPT ![c] =
                          Append(@, [msg |-> ReplyTo(received'[c][Len(received'[c])].type),
                                     call |-> 0, delivered |-> TRUE])]
            /\ readyState[c] = "OPEN"
            /\ readyState' = readyState
            /\ subscriptions' = subscriptions
    ]_vars

\* A subscriber sent a payload that does not decode: it got the error reply
\* after its snapshot, is still open and still subscribed.
C34_Witness ==
  \E c \in Conns, j \in JobIds :
    /\ c \in Subscribers(j)
    /\ readyState[c] = "OPEN"
    /\ Len(received[c]) = 2
    /\ received[c][2].type = "malformed"
    /\ sent[c][Len(sent[c])].msg = ErrorMsg("Invalid message format")

\* ---------------------------------------------------------------- C36
\* C36: every connection that has message handlers installed or that appears
\* in any subscriber set is authenticated with a non-empty userId, so the
\* 'Authentication required' error reply of subscribe and unsubscribe is never
\* sent.
C36_HandlersOnlyWhenAuthenticated ==
  \A c \in Conns :
    /\ (handlers[c] \/ \E j \in DOMAIN subscriptions : c \in subscriptions[j])
         => (isAuthenticated[c] /\ Truthy(userId[c]))
    /\ \A i \in DOMAIN sent[c] : sent[c][i].msg # ErrorMsg("Authentication required")

\* One connection was rejected by session validation, the other was accepted,
\* sent a subscribe and is in the subscriber set of its job.
C36_Witness ==
  \E c, d \in Conns, j \in JobIds :
    /\ closeCode[d] = PolicyViolation
    /\ ~handlers[d]
    /\ handlers[c]
    /\ c \in Subscribers(j)
    /\ received[c] = << [type |-> "subscribe", jobId |-> j] >>

\* ---------------------------------------------------------------- C35
\* The edges of the connection state machine.
Edges ==
  {<<"disconnected", "connecting">>, <<"connecting", "connected">>,
   <<"connected", "authenticated">>}
    \cup {<<s, "disconnected">> : s \in {"connecting", "connected", "authenticated"}}

C38_UnmountStopsEverything ==
  [][~mounted' =>
       /\ ws' # "OPEN"
       /\ ~(ws # "CONNECTING" /\ ws' = "CONNECTING")
       /\ ~(~settled /\ settled')
    ]_vars

====
